---- MODULE Spec2Model ----
(***************************************************************************)
(* State-machine model of tmap's cut enumeration (CutEngine) and cover     *)
(* selection (TechMapper) over an And-Inverter Graph.                      *)
(***************************************************************************)
EXTENDS Integers, Sequences, FiniteSets, TLC

VARIABLES aig,              \* the parsed design: [I, L, ands, outputs]
          k, c, goal,       \* CutEngine configuration (_k, _c, _mappingGoal)
          cutSetVector,     \* CutEngine::_cutSetVector, one CutSet per AND
          engineMap,        \* CutEngine::_implementationMap
          mapperMap,        \* TechMapper::_implementationMap
          mappingAreaCost,  \* TechMapper::_mappingAreaCost
          mappingDelayCost, \* TechMapper::_mappingDelayCost
          processingStack,  \* the work stack of the live findCuts activation
          target,           \* argument of the live findCuts activation, 0 if none
          call,             \* the public method being executed, or "idle"
          outIdx,           \* position of run() in the output literal vector
          failure,          \* message of the exception that ended the run, or ""
          fresh,            \* whether no cut set was stored when run() was called
          results,          \* area, depth and the cut sets at the return of each
                            \* TechMapper.run
          stdout,           \* the reports main has written to std::cout
          stderr,           \* the diagnostics main has written to std::cerr
          exitCode,         \* <<>> while the process runs, then <<its exit code>>
          reader,           \* the AndInverterGraph constructor reading a file
          returned          \* the operands and the result of the diamondOperation
                            \* under examination, or NoCall

vars == <<aig, k, c, goal, cutSetVector, engineMap, mapperMap, mappingAreaCost,
          mappingDelayCost, processingStack, target, call, outIdx, failure,
          fresh, results, stdout, stderr, exitCode, reader, returned>>

----------------------------------------------------------------------------
(* Bounds of the model *)
MaxSources == 2
MaxLatches == 1
MaxAnds == 1
MaxOutputs == 1
MaxK == 3
MaxC == 2
MaxRuns == 2
MaxOperandLen == 2

(* Program constants *)
\* The "cost not set" sentinel, (unsigned int) -1 in the source: the largest
\* unsigned value. The model uses the largest integer TLC represents; every
\* cost that is set is smaller in both.
Unset == 2147483647
MinK == 2

MinimizeArea == "MinimizeArea"
MinimizeDelay == "MinimizeDelay"

----------------------------------------------------------------------------
(* AndInverterGraph: literal arithmetic and classification *)

indexFromLiteral(literal) == literal \div 2

literalFromIndex(index) == index * 2

NumAnds(g) == Len(g.ands)

NumOutputs(g) == Len(g.outputs)

MaxVariableIndex(g) == g.I + g.L + NumAnds(g)

nodeIsInput(g, nodeLiteral) ==
  IF nodeLiteral <= 1 THEN FALSE
  ELSE indexFromLiteral(nodeLiteral) <= g.I

nodeIsLatch(g, nodeLiteral) ==
  IF nodeLiteral <= 1 THEN FALSE
  ELSE /\ indexFromLiteral(nodeLiteral) <= g.I + g.L
       /\ indexFromLiteral(nodeLiteral) > g.I

nodeIsAnd(g, nodeLiteral) ==
  IF nodeLiteral <= 1 THEN FALSE
  ELSE /\ indexFromLiteral(nodeLiteral) <= g.I + g.L + NumAnds(g)
       /\ indexFromLiteral(nodeLiteral) > g.I + g.L

getFirstAndLiteral(g) == literalFromIndex(0 + g.I + g.L + 1)

\* Position of an AND in the AND vector and in _cutSetVector (0-based in the
\* source; the sequences of the model are 1-based, hence the callers' + 1).
vectorIndexFromAndLiteral(g, andLiteral) ==
  indexFromLiteral(andLiteral) - g.I - g.L - 1

getFirstChild(g, andLiteral) ==
  g.ands[vectorIndexFromAndLiteral(g, andLiteral) + 1][1]

\* Mutant of getSecondChild: the first right-hand side is read twice
getSecondChildAsFirst(g, andLiteral) == getFirstChild(g, andLiteral)

getSecondChild(g, andLiteral) ==
  g.ands[vectorIndexFromAndLiteral(g, andLiteral) + 1][2]

----------------------------------------------------------------------------
(* Cut and CutSet *)

Cut(nodeVariables, areaCost, delayCost, powerCost) ==
  [vars |-> nodeVariables, area |-> areaCost, delay |-> delayCost,
   power |-> powerCost]

\* Mutant of allCostsSet: only the area is looked at
allCostsSetAreaOnly(cut) == ~(cut.area = Unset)

allCostsSet(cut) ==
  ~(cut.area = Unset \/ cut.delay = Unset \/ cut.power = Unset)

\* Mutant of CutUnion: the leaves of the second operand are left out
CutUnionFirstOnly(cutA, cutB) == Cut(cutA.vars, Unset, Unset, Unset)

\* Cut::operator+ ; the caller checks the operands are not empty
CutUnion(cutA, cutB) == Cut(cutA.vars \cup cutB.vars, Unset, Unset, Unset)

\* Mutant of CutEquals: the costs take part in the comparison
CutEqualsWithCosts(cutA, cutB) == cutA = cutB

\* Cut::operator== compares the variable sets only
CutEquals(cutA, cutB) == cutA.vars = cutB.vars

InSet(cutSet, newCut) == \E i \in 1..Len(cutSet) : CutEquals(newCut, cutSet[i])

\* CutSet::emplace
emplace(cutSet, newCut) ==
  IF InSet(cutSet, newCut) THEN cutSet ELSE Append(cutSet, newCut)

----------------------------------------------------------------------------
(* CutEngine: results of operations that may throw *)

Ok(cutSet) == [ok |-> TRUE, cuts |-> cutSet, what |-> ""]

Throw(message) == [ok |-> FALSE, cuts |-> <<>>, what |-> message]

----------------------------------------------------------------------------
(* CutEngine: comparators and sorting *)

\* Mutant of cutAreaComparision: equal areas are not ordered by delay
cutAreaComparisionNoTie(cutA, cutB) == cutA.area < cutB.area

cutAreaComparision(cutA, cutB) ==
  IF cutA.area < cutB.area THEN TRUE
  ELSE IF cutA.area = cutB.area THEN cutA.delay < cutB.delay
  ELSE FALSE

cutDelayComparision(cutA, cutB) ==
  IF cutA.delay < cutB.delay THEN TRUE
  ELSE IF cutA.delay = cutB.delay THEN cutA.area < cutB.area
  ELSE FALSE

Comparator(mappingGoal, cutA, cutB) ==
  IF mappingGoal = MinimizeArea THEN cutAreaComparision(cutA, cutB)
  ELSE IF mappingGoal = MinimizeDelay THEN cutDelayComparision(cutA, cutB)
  ELSE cutAreaComparision(cutA, cutB)

RemoveAt(s, i) == SubSeq(s, 1, i - 1) \o SubSeq(s, i + 1, Len(s))

\* std::sort: every arrangement of the cuts in which no cut is strictly
\* preceded (under the comparator) by a later one. The order of cuts that
\* compare equivalent is not specified, so each such arrangement is an outcome.
RECURSIVE StdSort(_, _)
StdSort(cutSet, mappingGoal) ==
  IF cutSet = <<>> THEN {<<>>}
  ELSE UNION { { <<cutSet[i]>> \o rest :
                   rest \in StdSort(RemoveAt(cutSet, i), mappingGoal) } :
               i \in { i \in 1..Len(cutSet) :
                         \A j \in 1..Len(cutSet) :
                           ~Comparator(mappingGoal, cutSet[j], cutSet[i]) } }

sortCutSet(cutSet, mappingGoal) == StdSort(cutSet, mappingGoal)

\* Mutant of sortAndChooseBestCuts: the set is cut down to c without sorting
chooseFirstCuts(cutSet, cc, mappingGoal) ==
  { IF Len(cutSet) > cc THEN SubSeq(cutSet, 1, cc) ELSE cutSet }

sortAndChooseBestCuts(cutSet, cc, mappingGoal) ==
  { IF Len(bestCuts) > cc THEN SubSeq(bestCuts, 1, cc) ELSE bestCuts :
      bestCuts \in StdSort(cutSet, mappingGoal) }

----------------------------------------------------------------------------
(* CutEngine: cost estimates, autocut, diamond and phi *)

getCutSet(g, csv, andLiteral) ==
  csv[vectorIndexFromAndLiteral(g, andLiteral) + 1]

getBestCut(g, csv, andLiteral) == getCutSet(g, csv, andLiteral)[1]

estimateUnionCutAreaCost(g, impl, andLiteral, unionCut) ==
  Cardinality({ nodeIndex \in unionCut.vars :
                  /\ nodeIsAnd(g, literalFromIndex(nodeIndex))
                  /\ impl[literalFromIndex(nodeIndex)] = FALSE })

\* Mutant of estimateUnionCutDelayCost: the delay of the first operand
estimateUnionCutDelayCostFirst(cutA, cutB) == cutA.delay

\* Mutant of estimateUnionCutDelayCost: the delays of the operands add up
estimateUnionCutDelayCostSum(cutA, cutB) == cutA.delay + cutB.delay

estimateUnionCutDelayCost(cutA, cutB) ==
  IF cutA.delay >= cutB.delay THEN cutA.delay ELSE cutB.delay

estimateAutoCutAreaCost(g, csv, andLiteral) ==
  getBestCut(g, csv, andLiteral).area

\* Mutant of estimateAutoCutDelayCost: the node's own level is not added
estimateAutoCutDelayCostFlat(g, csv, andLiteral) ==
  getBestCut(g, csv, andLiteral).delay

estimateAutoCutDelayCost(g, csv, andLiteral) ==
  1 + getBestCut(g, csv, andLiteral).delay

\* Mutant of generateAutoCut: an input leaf costs no delay
generateAutoCutFreeInput(g, csv, nodeLiteral) ==
  IF nodeIsInput(g, nodeLiteral)
    THEN Cut({indexFromLiteral(nodeLiteral)}, 0, 0, 0)
    ELSE Cut({indexFromLiteral(nodeLiteral)},
             estimateAutoCutAreaCost(g, csv, nodeLiteral),
             estimateAutoCutDelayCost(g, csv, nodeLiteral),
             0)

\* Defined for inputs and for ANDs with a cut set; for any other node the
\* source throws (see CanGenerateAutoCut).
generateAutoCut(g, csv, nodeLiteral) ==
  IF nodeIsInput(g, nodeLiteral)
    THEN Cut({indexFromLiteral(nodeLiteral)}, 0, 1, 0)
    ELSE Cut({indexFromLiteral(nodeLiteral)},
             estimateAutoCutAreaCost(g, csv, nodeLiteral),
             estimateAutoCutDelayCost(g, csv, nodeLiteral),
             0)

CanGenerateAutoCut(g, nodeLiteral) ==
  nodeIsInput(g, nodeLiteral) \/ nodeIsAnd(g, nodeLiteral)

\* The loop of diamondOperation from the p-th pair of cutSetA x cutSetB on,
\* cutSetA in the outer loop; diamond is the set built so far.
RECURSIVE DiamondLoop(_, _, _, _, _, _, _, _)
DiamondLoop(g, impl, andLiteral, cutSetA, cutSetB, kk, p, diamond) ==
  IF p > Len(cutSetA) * Len(cutSetB) THEN Ok(diamond)
  ELSE
    LET cutA == cutSetA[((p - 1) \div Len(cutSetB)) + 1]
        cutB == cutSetB[((p - 1) % Len(cutSetB)) + 1]
    IN
    IF cutA.vars = {} \/ cutB.vars = {} THEN Throw("Cut::operator+")
    ELSE
      LET unionCut == CutUnion(cutA, cutB) IN
      IF Cardinality(unionCut.vars) > kk
        THEN DiamondLoop(g, impl, andLiteral, cutSetA, cutSetB, kk, p + 1,
                         diamond)
      ELSE IF ~allCostsSet(cutA) \/ ~allCostsSet(cutB)
        THEN Throw("diamondOperation")
      ELSE IF InSet(diamond, unionCut)
        THEN DiamondLoop(g, impl, andLiteral, cutSetA, cutSetB, kk, p + 1,
                         diamond)
      ELSE DiamondLoop(g, impl, andLiteral, cutSetA, cutSetB, kk, p + 1,
             Append(diamond,
                    Cut(unionCut.vars,
                        estimateUnionCutAreaCost(g, impl, andLiteral, unionCut),
                        estimateUnionCutDelayCost(cutA, cutB),
                        0)))

\* Mutant of diamondOperation: unions of k + 1 leaves are kept
diamondOperationWide(g, impl, andLiteral, cutSetA, cutSetB, kk) ==
  DiamondLoop(g, impl, andLiteral, cutSetA, cutSetB, kk + 1, 1, <<>>)

diamondOperation(g, impl, andLiteral, cutSetA, cutSetB, kk) ==
  DiamondLoop(g, impl, andLiteral, cutSetA, cutSetB, kk, 1, <<>>)

\* The cut set phi starts from for one child, before the autocut is added.
\* getCutSet throws for a child that is not an AND.
ChildCutSet(g, csv, childLiteral) ==
  IF nodeIsInput(g, childLiteral) THEN <<>>
  ELSE getCutSet(g, csv, childLiteral)

\* Mutant of ChildOperand: the autocut is added for input children only
ChildOperandInputsOnly(g, csv, childLiteral) ==
  IF nodeIsInput(g, childLiteral)
    THEN emplace(ChildCutSet(g, csv, childLiteral),
                 generateAutoCut(g, csv, childLiteral))
    ELSE ChildCutSet(g, csv, childLiteral)

\* The cut set of one child as phi hands it to diamond: the child's cut set
\* with the child's autocut added
ChildOperand(g, csv, childLiteral) ==
  emplace(ChildCutSet(g, csv, childLiteral),
          generateAutoCut(g, csv, childLiteral))

phiOperation(g, csv, impl, kk, andLiteral) ==
  IF ~nodeIsAnd(g, andLiteral) THEN Throw("phiOperation")
  ELSE IF getCutSet(g, csv, andLiteral) # <<>>
    THEN Ok(getCutSet(g, csv, andLiteral))
  ELSE
    LET firstChildLiteral == getFirstChild(g, andLiteral)
        secondChildLiteral == getSecondChild(g, andLiteral)
    IN
    IF \/ /\ nodeIsAnd(g, firstChildLiteral)
          /\ getCutSet(g, csv, firstChildLiteral) = <<>>
       \/ /\ nodeIsAnd(g, secondChildLiteral)
          /\ getCutSet(g, csv, secondChildLiteral) = <<>>
      THEN Throw("phiOperation: child without CutSet")
    ELSE IF \/ ~(nodeIsInput(g, firstChildLiteral)
                 \/ nodeIsAnd(g, firstChildLiteral))
            \/ ~(nodeIsInput(g, secondChildLiteral)
                 \/ nodeIsAnd(g, secondChildLiteral))
      THEN Throw("getCutSet: not a valid and-literal")
    ELSE IF \/ ~CanGenerateAutoCut(g, firstChildLiteral)
            \/ ~CanGenerateAutoCut(g, secondChildLiteral)
      THEN Throw("generateAutoCut: child node is neither input nor AND")
    ELSE
      diamondOperation(g, impl, andLiteral,
        ChildOperand(g, csv, firstChildLiteral),
        ChildOperand(g, csv, secondChildLiteral),
        kk)

----------------------------------------------------------------------------
(* CutEngine::findCuts: what one evaluation of the node on top of the work  *)
(* stack does to _implementationMap                                         *)

MapPut(map, key, value) ==
  [x \in (DOMAIN map) \cup {key} |-> IF x = key THEN value ELSE map[x]]

EvenLiteral(literal) == IF literal % 2 = 1 THEN literal - 1 ELSE literal

\* Mutant of AbsorbChild: the child's literal is used as it is
AbsorbChildAsIs(g, csv, impl, bestCut, childLiteral) ==
  IF /\ nodeIsAnd(g, childLiteral)
     /\ getBestCut(g, csv, childLiteral).vars \subseteq bestCut.vars
    THEN MapPut(impl, childLiteral, FALSE)
    ELSE impl

\* One child of the absorption step: the child's entry is reset when the
\* child is an AND whose best cut is included in the node's best cut.
AbsorbChild(g, csv, impl, bestCut, childLiteral) ==
  IF /\ nodeIsAnd(g, childLiteral)
     /\ getBestCut(g, csv, childLiteral).vars \subseteq bestCut.vars
    THEN MapPut(impl, EvenLiteral(childLiteral), FALSE)
    ELSE impl

\* csv is _cutSetVector after the node's sorted cut set has been stored.
Absorb(g, csv, impl, currentAndNode, bestCut) ==
  IF bestCut.area = 0
    THEN AbsorbChild(g, csv,
           AbsorbChild(g, csv, MapPut(impl, currentAndNode, TRUE), bestCut,
                       getFirstChild(g, currentAndNode)),
           bestCut, getSecondChild(g, currentAndNode))
    ELSE impl

\* The cut sets findCuts may store for a node from the result of phi
SortedForStorage(cutSet, cc, mappingGoal) ==
  IF cc > 0 THEN sortAndChooseBestCuts(cutSet, cc, mappingGoal)
  ELSE sortCutSet(cutSet, mappingGoal)

----------------------------------------------------------------------------
(* TechMapper::run: covering from one AND output *)

AndLeaves(g, cut) ==
  { literalFromIndex(nodeIndex) : nodeIndex \in
      { v \in cut.vars : nodeIsAnd(g, literalFromIndex(v)) } }

SetMin(S) == CHOOSE x \in S : \A y \in S : x <= y

\* The body of the while loop over currentIteration; todo is the part of
\* currentIteration not visited yet (std::set iterates in ascending order).
\* st = [ok, map, area, next].
RECURSIVE CoverIteration(_, _, _, _)
CoverIteration(g, csv, todo, st) ==
  IF todo = {} \/ ~st.ok THEN st
  ELSE
    LET nodeLiteral == SetMin(todo) IN
    IF st.map[nodeLiteral] = FALSE
      THEN IF getCutSet(g, csv, nodeLiteral) = <<>>
        THEN [st EXCEPT !.ok = FALSE]
        ELSE CoverIteration(g, csv, todo \ {nodeLiteral},
               [ok |-> TRUE,
                map |-> MapPut(st.map, nodeLiteral, TRUE),
                area |-> st.area + 1,
                next |-> st.next \cup
                           AndLeaves(g, getBestCut(g, csv, nodeLiteral))])
      ELSE CoverIteration(g, csv, todo \ {nodeLiteral}, st)

\* Mutant of CoverLoop: the nodes collected for the next iteration are dropped
CoverLoopOnce(g, csv, currentIteration, st) ==
  CoverIteration(g, csv, currentIteration, [st EXCEPT !.next = {}])

RECURSIVE CoverLoop(_, _, _, _)
CoverLoop(g, csv, currentIteration, st) ==
  IF currentIteration = {} \/ ~st.ok THEN st
  ELSE LET after == CoverIteration(g, csv, currentIteration,
                                   [st EXCEPT !.next = {}])
       IN CoverLoop(g, csv, after.next, after)

Max(a, b) == IF a < b THEN b ELSE a

\* Mutant of Cover: the output's own LUT is not added to the area
CoverUncounted(g, csv, map, area, depth, evenOutputLiteral) ==
  IF getCutSet(g, csv, evenOutputLiteral) = <<>>
    THEN [ok |-> FALSE, map |-> MapPut(map, evenOutputLiteral, TRUE),
          area |-> area, depth |-> depth]
    ELSE
      LET outputBestCut == getBestCut(g, csv, evenOutputLiteral)
          loop == CoverLoop(g, csv, AndLeaves(g, outputBestCut),
                    [ok |-> TRUE,
                     map |-> MapPut(map, evenOutputLiteral, TRUE),
                     area |-> area,
                     next |-> {}])
      IN [ok |-> loop.ok, map |-> loop.map, area |-> loop.area,
          depth |-> Max(depth, outputBestCut.delay)]

\* TechMapper::run, lines 58-111: the output is marked, counted and its best
\* cut followed down to the inputs. Result: [ok, map, area, depth].
Cover(g, csv, map, area, depth, evenOutputLiteral) ==
  IF getCutSet(g, csv, evenOutputLiteral) = <<>>
    THEN [ok |-> FALSE, map |-> MapPut(map, evenOutputLiteral, TRUE),
          area |-> area + 1, depth |-> depth]
    ELSE
      LET outputBestCut == getBestCut(g, csv, evenOutputLiteral)
          loop == CoverLoop(g, csv, AndLeaves(g, outputBestCut),
                    [ok |-> TRUE,
                     map |-> MapPut(map, evenOutputLiteral, TRUE),
                     area |-> area + 1,
                     next |-> {}])
      IN [ok |-> loop.ok, map |-> loop.map, area |-> loop.area,
          depth |-> Max(depth, outputBestCut.delay)]

----------------------------------------------------------------------------
(* The designs and configurations of the model *)

\* References to a node. A negated reference to an input or a latch is read
\* by the engine and the mapper exactly as the positive one (classification
\* and cut leaves use the variable), so the generated designs negate only
\* references to AND nodes.
References(numInputs, numLatches, maxLiteral) ==
  { l \in 2..maxLiteral :
      l % 2 = 0 \/ indexFromLiteral(l) > numInputs + numLatches }

\* The children an AND may have: andLiteral > c0 >= c1 >= 2
AndChoices(numInputs, numLatches, andLiteral) ==
  { ch \in References(numInputs, numLatches, andLiteral - 1)
             \X References(numInputs, numLatches, andLiteral - 1) :
      ch[1] >= ch[2] }

RECURSIVE AndVectors(_, _, _)
AndVectors(numInputs, numLatches, n) ==
  IF n = 0 THEN {<<>>}
  ELSE { Append(s, ch) :
           s \in AndVectors(numInputs, numLatches, n - 1),
           ch \in AndChoices(numInputs, numLatches,
                             2 * (numInputs + numLatches + n)) }

RECURSIVE OutputVectors(_, _)
OutputVectors(literals, n) ==
  IF n = 0 THEN {<<>>}
  ELSE OutputVectors(literals, n - 1) \cup
       { Append(s, o) : s \in { t \in OutputVectors(literals, n - 1) :
                                  Len(t) = n - 1 },
                        o \in literals }

GeneratedAigs ==
  UNION { UNION { UNION {
    { [I |-> i, L |-> l, ands |-> av, outputs |-> ov] :
        av \in AndVectors(i, l, a),
        ov \in OutputVectors({0, 1} \cup
                               References(i, l, 2 * (i + l + a) + 1),
                             MaxOutputs) }
    : a \in 0..MaxAnds }
    : l \in { n \in 0..MaxLatches : i + n <= MaxSources } }
    : i \in 1..MaxSources }

\* Scenario S2 of the specification: a chain of three ANDs
S2Aig == [I |-> 3, L |-> 0, ands |-> << <<4, 2>>, <<8, 6>>, <<10, 2>> >>,
          outputs |-> <<12>>]

\* Scenario S3 of the specification: a shared subexpression
S3Aig == [I |-> 2, L |-> 0, ands |-> << <<4, 2>>, <<6, 2>>, <<6, 4>> >>,
          outputs |-> <<8, 10>>]

\* Negated references to shared ANDs: 10 reads 8 twice, both outputs negated
NegatedAig == [I |-> 3, L |-> 0, ands |-> << <<4, 2>>, <<8, 8>>, <<10, 6>> >>,
               outputs |-> <<11, 13>>]

\* A sequential design whose outputs are a latch, a negated AND, the constant
\* FALSE (scenario S4 of the specification) and an input
MixedOutputsAig == [I |-> 1, L |-> 1, ands |-> << <<2, 2>> >>,
                    outputs |-> <<4, 7, 0, 2>>]

\* An AND whose two children are different ANDs
TwoBranchAig == [I |-> 3, L |-> 0, ands |-> << <<4, 2>>, <<6, 2>>, <<10, 8>> >>,
                 outputs |-> <<12>>]

\* Positive references only: 12 reads 10 twice and is an output, 16 reads 12
\* and 14, which shares 8 with 10
SharedAig == [I |-> 3, L |-> 0,
              ands |-> << <<4, 2>>, <<8, 6>>, <<10, 10>>, <<8, 4>>, <<14, 12>> >>,
              outputs |-> <<16, 12>>]

\* A negated reference to an AND as a child: 10 reads the complement of 8
NegatedChildAig == [I |-> 3, L |-> 0, ands |-> << <<4, 2>>, <<9, 6>> >>,
                    outputs |-> <<10>>]

Aigs ==
  GeneratedAigs \cup {S2Aig, S3Aig, NegatedAig, MixedOutputsAig, TwoBranchAig,
                      NegatedChildAig}

\* The map both constructors build: every even AND literal, not implemented
NewImplementationMap(g) ==
  [ l \in { literalFromIndex(i) :
              i \in indexFromLiteral(getFirstAndLiteral(g)) ..
                    (indexFromLiteral(getFirstAndLiteral(g)) + NumAnds(g) - 1) }
      |-> FALSE ]

NewCutSetVector(g) == [ i \in 1..NumAnds(g) |-> <<>> ]

\* No file is being read: the design is loaded
NoReader == [pc |-> "closed"]

\* diamondOperation is not under examination
NoCall == [pc |-> "none"]

\* The state main reaches once the AIG is loaded and the CutEngine and the
\* TechMapper are constructed
Constructed(designs, bounds, goals) ==
  /\ aig \in designs
  /\ k \in MinK..MaxK
  /\ c \in bounds
  /\ goal \in goals
  /\ cutSetVector = NewCutSetVector(aig)
  /\ engineMap = NewImplementationMap(aig)
  /\ mapperMap = NewImplementationMap(aig)
  /\ mappingAreaCost = 0
  /\ mappingDelayCost = 0
  /\ processingStack = <<>>
  /\ target = 0
  /\ call = "idle"
  /\ outIdx = 0
  /\ failure = ""
  /\ fresh = FALSE
  /\ results = <<>>
  /\ stdout = <<>>
  /\ stderr = <<>>
  /\ exitCode = <<>>
  /\ reader = NoReader
  /\ returned = NoCall

Init == Constructed(Aigs, 0..MaxC, {MinimizeArea, MinimizeDelay})

----------------------------------------------------------------------------
(* CutEngine::findCuts *)

config == <<aig, k, c, goal>>

process == <<stdout, stderr, exitCode, reader, returned>>

mapper == <<mapperMap, mappingAreaCost, mappingDelayCost, fresh, results>>

Top(stack) == stack[Len(stack)]

Pop(stack) == SubSeq(stack, 1, Len(stack) - 1)

\* Mutant of ChildToDefer: the second child is never put on the stack
ChildToDeferFirstOnly(g, csv, currentAndNode) ==
  IF /\ nodeIsAnd(g, getFirstChild(g, currentAndNode))
     /\ getCutSet(g, csv, getFirstChild(g, currentAndNode)) = <<>>
    THEN getFirstChild(g, currentAndNode)
  ELSE 0

\* The child the loop of findCuts pushes for the node on top of the stack,
\* or 0 when both children are ready
ChildToDefer(g, csv, currentAndNode) ==
  IF /\ nodeIsAnd(g, getFirstChild(g, currentAndNode))
     /\ getCutSet(g, csv, getFirstChild(g, currentAndNode)) = <<>>
    THEN getFirstChild(g, currentAndNode)
  ELSE IF /\ nodeIsAnd(g, getSecondChild(g, currentAndNode))
          /\ getCutSet(g, csv, getSecondChild(g, currentAndNode)) = <<>>
    THEN getSecondChild(g, currentAndNode)
  ELSE 0

\* An exception leaves the method that was running; main reports it and exits.
Fail(message) ==
  /\ failure' = message
  /\ processingStack' = <<>>
  /\ target' = 0

\* Mutant of FindCuts: no early return for a literal that has a cut set
FindCutsAlways(andLiteral) ==
  /\ call = "idle"
  /\ failure = ""
  /\ IF ~nodeIsAnd(aig, andLiteral)
       THEN /\ Fail("findCuts: not a valid and-literal")
            /\ UNCHANGED <<config, process, cutSetVector, engineMap, mapper, call, outIdx>>
     ELSE /\ processingStack' = <<andLiteral>>
          /\ target' = andLiteral
          /\ call' = "findCuts"
          /\ UNCHANGED <<config, process, cutSetVector, engineMap, mapper, outIdx,
                         failure>>

\* A call of findCuts(andLiteral) by a client of the engine
FindCuts(andLiteral) ==
  /\ call = "idle"
  /\ failure = ""
  /\ IF ~nodeIsAnd(aig, andLiteral)
       THEN /\ Fail("findCuts: not a valid and-literal")
            /\ UNCHANGED <<config, process, cutSetVector, engineMap, mapper, call, outIdx>>
     ELSE IF getCutSet(aig, cutSetVector, andLiteral) # <<>>
       THEN UNCHANGED vars
     ELSE /\ processingStack' = <<andLiteral>>
          /\ target' = andLiteral
          /\ call' = "findCuts"
          /\ UNCHANGED <<config, process, cutSetVector, engineMap, mapper, outIdx,
                         failure>>

\* One iteration of the while loop that puts the current node off
FindCutsDefer ==
  /\ failure = ""
  /\ processingStack # <<>>
  /\ ChildToDefer(aig, cutSetVector, Top(processingStack)) # 0
  /\ processingStack' =
       Append(processingStack,
              ChildToDefer(aig, cutSetVector, Top(processingStack)))
  /\ UNCHANGED <<config, process, cutSetVector, engineMap, mapper, target, call, outIdx,
                 failure>>

\* One iteration of the while loop that applies phi to the current node,
\* sorts (and prunes) the result, stores it, updates _implementationMap and
\* pops the node
FindCutsEvaluate ==
  /\ failure = ""
  /\ processingStack # <<>>
  /\ ChildToDefer(aig, cutSetVector, Top(processingStack)) = 0
  /\ LET currentAndNode == Top(processingStack)
         currentNodeCutSet ==
           phiOperation(aig, cutSetVector, engineMap, k, currentAndNode)
     IN
     IF ~currentNodeCutSet.ok
       THEN /\ Fail(currentNodeCutSet.what)
            /\ UNCHANGED <<config, process, cutSetVector, engineMap, mapper, call,
                           outIdx>>
     ELSE IF currentNodeCutSet.cuts = <<>>
       THEN /\ Fail("CutSet::at(0): out of range")
            /\ UNCHANGED <<config, process, cutSetVector, engineMap, mapper, call,
                           outIdx>>
     ELSE
       \E sortedCutSet \in SortedForStorage(currentNodeCutSet.cuts, c, goal) :
         /\ cutSetVector' =
              [cutSetVector EXCEPT
                 ![vectorIndexFromAndLiteral(aig, currentAndNode) + 1] =
                   sortedCutSet]
         /\ engineMap' = Absorb(aig, cutSetVector', engineMap, currentAndNode,
                                sortedCutSet[1])
         /\ processingStack' = Pop(processingStack)
         /\ UNCHANGED <<config, process, mapper, target, call, outIdx, failure>>

\* The loop has ended: the sanity check, and the return to the client
FindCutsReturn ==
  /\ failure = ""
  /\ call = "findCuts"
  /\ target # 0
  /\ processingStack = <<>>
  /\ IF getCutSet(aig, cutSetVector, target) = <<>>
       THEN /\ Fail("findCuts: cut set remains undefined")
            /\ UNCHANGED <<config, process, cutSetVector, engineMap, mapper, call,
                           outIdx>>
       ELSE /\ target' = 0
            /\ call' = "idle"
            /\ UNCHANGED <<config, process, cutSetVector, engineMap, mapper,
                           processingStack, outIdx, failure>>

----------------------------------------------------------------------------
(* CutEngine::run *)

CutEngineRun ==
  /\ failure = ""
  /\ call = "idle"
  /\ call' = "CutEngine.run"
  /\ outIdx' = 1
  /\ UNCHANGED <<config, process, cutSetVector, engineMap, mapper, processingStack,
                 target, failure>>

\* The loop of run reaches the next output literal
CutEngineRunOutput ==
  /\ failure = ""
  /\ call = "CutEngine.run"
  /\ target = 0
  /\ outIdx <= NumOutputs(aig)
  /\ LET outputLiteral == aig.outputs[outIdx] IN
     IF /\ nodeIsAnd(aig, outputLiteral)
        /\ getCutSet(aig, cutSetVector, outputLiteral) = <<>>
       THEN /\ processingStack' = <<outputLiteral>>
            /\ target' = outputLiteral
            /\ UNCHANGED outIdx
       ELSE /\ outIdx' = outIdx + 1
            /\ UNCHANGED <<processingStack, target>>
  /\ UNCHANGED <<config, process, cutSetVector, engineMap, mapper, call, failure>>

\* findCuts returns to run
CutEngineRunResume ==
  /\ failure = ""
  /\ call = "CutEngine.run"
  /\ target # 0
  /\ processingStack = <<>>
  /\ IF getCutSet(aig, cutSetVector, target) = <<>>
       THEN /\ Fail("findCuts: cut set remains undefined")
            /\ UNCHANGED outIdx
       ELSE /\ target' = 0
            /\ outIdx' = outIdx + 1
            /\ UNCHANGED <<processingStack, failure>>
  /\ UNCHANGED <<config, process, cutSetVector, engineMap, mapper, call>>

CutEngineRunReturn ==
  /\ failure = ""
  /\ call = "CutEngine.run"
  /\ target = 0
  /\ outIdx > NumOutputs(aig)
  /\ call' = "idle"
  /\ outIdx' = 0
  /\ UNCHANGED <<config, process, cutSetVector, engineMap, mapper, processingStack,
                 target, failure>>

----------------------------------------------------------------------------
(* TechMapper::run *)

\* The engine and the mapper are as their constructors left them
EngineFresh ==
  /\ cutSetVector = NewCutSetVector(aig)
  /\ engineMap = NewImplementationMap(aig)
  /\ mapperMap = NewImplementationMap(aig)
  /\ mappingAreaCost = 0
  /\ mappingDelayCost = 0

TechMapperRun ==
  /\ failure = ""
  /\ call = "idle"
  /\ Len(results) < MaxRuns
  /\ call' = "TechMapper.run"
  /\ outIdx' = 1
  /\ fresh' = EngineFresh
  /\ UNCHANGED <<config, process, cutSetVector, engineMap, mapperMap, mappingAreaCost,
                 mappingDelayCost, results, processingStack, target, failure>>

\* Lines 58-111 applied to the mapper's state
CoverOutput(outputLiteral) ==
  LET cover == Cover(aig, cutSetVector, mapperMap, mappingAreaCost,
                     mappingDelayCost, EvenLiteral(outputLiteral))
  IN /\ mapperMap' = cover.map
     /\ mappingAreaCost' = cover.area
     /\ mappingDelayCost' = cover.depth
     /\ IF cover.ok
          THEN /\ target' = 0
               /\ outIdx' = outIdx + 1
               /\ UNCHANGED <<processingStack, failure>>
          ELSE /\ Fail("getBestCut: best cut not defined")
               /\ UNCHANGED outIdx

\* Mutant of TechMapperRunOutput: a constant output is not counted
TechMapperRunOutputInputsOnly ==
  /\ failure = ""
  /\ call = "TechMapper.run"
  /\ target = 0
  /\ outIdx <= NumOutputs(aig)
  /\ LET outputLiteral == aig.outputs[outIdx] IN
     IF nodeIsAnd(aig, outputLiteral)
       THEN IF mapperMap[EvenLiteral(outputLiteral)] = FALSE
         THEN IF getCutSet(aig, cutSetVector, outputLiteral) = <<>>
           THEN /\ processingStack' = <<outputLiteral>>
                /\ target' = outputLiteral
                /\ UNCHANGED <<mapperMap, mappingAreaCost, mappingDelayCost,
                               outIdx, failure>>
           ELSE CoverOutput(outputLiteral)
         ELSE /\ outIdx' = outIdx + 1
              /\ UNCHANGED <<mapperMap, mappingAreaCost, mappingDelayCost,
                             processingStack, target, failure>>
     ELSE IF nodeIsInput(aig, outputLiteral)
       THEN /\ mappingAreaCost' = mappingAreaCost + 1
            /\ mappingDelayCost' =
                 (IF mappingDelayCost < 1 THEN 1 ELSE mappingDelayCost)
            /\ outIdx' = outIdx + 1
            /\ UNCHANGED <<mapperMap, processingStack, target, failure>>
     ELSE /\ outIdx' = outIdx + 1
          /\ UNCHANGED <<mapperMap, mappingAreaCost, mappingDelayCost,
                         processingStack, target, failure>>
  /\ UNCHANGED <<config, process, cutSetVector, engineMap, call, fresh, results>>

\* The loop of run reaches the next output literal
TechMapperRunOutput ==
  /\ failure = ""
  /\ call = "TechMapper.run"
  /\ target = 0
  /\ outIdx <= NumOutputs(aig)
  /\ LET outputLiteral == aig.outputs[outIdx] IN
     IF nodeIsAnd(aig, outputLiteral)
       THEN IF mapperMap[EvenLiteral(outputLiteral)] = FALSE
         THEN IF getCutSet(aig, cutSetVector, outputLiteral) = <<>>
           THEN /\ processingStack' = <<outputLiteral>>
                /\ target' = outputLiteral
                /\ UNCHANGED <<mapperMap, mappingAreaCost, mappingDelayCost,
                               outIdx, failure>>
           ELSE CoverOutput(outputLiteral)
         ELSE /\ outIdx' = outIdx + 1
              /\ UNCHANGED <<mapperMap, mappingAreaCost, mappingDelayCost,
                             processingStack, target, failure>>
     ELSE IF nodeIsInput(aig, outputLiteral) \/ outputLiteral < 2
       THEN /\ mappingAreaCost' = mappingAreaCost + 1
            /\ mappingDelayCost' =
                 (IF mappingDelayCost < 1 THEN 1 ELSE mappingDelayCost)
            /\ outIdx' = outIdx + 1
            /\ UNCHANGED <<mapperMap, processingStack, target, failure>>
     ELSE /\ outIdx' = outIdx + 1
          /\ UNCHANGED <<mapperMap, mappingAreaCost, mappingDelayCost,
                         processingStack, target, failure>>
  /\ UNCHANGED <<config, process, cutSetVector, engineMap, call, fresh, results>>

\* findCuts returns to run, which covers the output
TechMapperRunResume ==
  /\ failure = ""
  /\ call = "TechMapper.run"
  /\ target # 0
  /\ processingStack = <<>>
  /\ IF getCutSet(aig, cutSetVector, target) = <<>>
       THEN /\ Fail("findCuts: cut set remains undefined")
            /\ UNCHANGED <<mapperMap, mappingAreaCost, mappingDelayCost,
                           outIdx>>
       ELSE CoverOutput(target)
  /\ UNCHANGED <<config, process, cutSetVector, engineMap, call, fresh, results>>

TechMapperRunReturn ==
  /\ failure = ""
  /\ call = "TechMapper.run"
  /\ target = 0
  /\ outIdx > NumOutputs(aig)
  /\ call' = "idle"
  /\ outIdx' = 0
  /\ results' = Append(results, [fresh |-> fresh,
                                 c |-> c,
                                 area |-> mappingAreaCost,
                                 depth |-> mappingDelayCost,
                                 cuts |-> cutSetVector])
  /\ UNCHANGED <<config, process, cutSetVector, engineMap, mapperMap, mappingAreaCost,
                 mappingDelayCost, fresh, processingStack, target, failure>>

----------------------------------------------------------------------------
Next ==
  \/ \E andLiteral \in 0..(2 * MaxVariableIndex(aig) + 1) : FindCuts(andLiteral)
  \/ FindCutsDefer
  \/ FindCutsEvaluate
  \/ FindCutsReturn
  \/ CutEngineRun
  \/ CutEngineRunOutput
  \/ CutEngineRunResume
  \/ CutEngineRunReturn
  \/ TechMapperRun
  \/ TechMapperRunOutput
  \/ TechMapperRunResume
  \/ TechMapperRunReturn

Spec == Init /\ [][Next]_vars

\* The engines with the smallest LUT size and one cut kept per node
InitLoop == Constructed(Aigs, {1}, {MinimizeArea}) /\ k = MinK

\* Once findCuts has pushed its literal the while loop runs on its own: an
\* iteration that can be taken is taken
SpecLoop ==
  InitLoop /\ [][Next]_vars
    /\ WF_vars(FindCutsDefer) /\ WF_vars(FindCutsEvaluate)

----------------------------------------------------------------------------
(* The same design mapped again with another pruning bound *)

\* main, started again on the same file with another c: a new CutEngine and a
\* new TechMapper are constructed; results keeps what each run reported.
NewMapping ==
  /\ failure = ""
  /\ call = "idle"
  /\ Len(results) >= 1
  /\ Len(results) < MaxRuns
  /\ c' \in 1..MaxC
  /\ cutSetVector' = NewCutSetVector(aig)
  /\ engineMap' = NewImplementationMap(aig)
  /\ mapperMap' = NewImplementationMap(aig)
  /\ mappingAreaCost' = 0
  /\ mappingDelayCost' = 0
  /\ fresh' = FALSE
  /\ UNCHANGED <<aig, k, goal, processingStack, target, call, outIdx, failure,
                 results, process>>

InitPrune ==
  Constructed({S2Aig, S3Aig, TwoBranchAig, SharedAig}, 1..MaxC, {MinimizeArea})

NextPrune == Next \/ NewMapping

SpecPrune == InitPrune /\ [][NextPrune]_vars

----------------------------------------------------------------------------
(* CutEngine::diamondOperation applied to operand cut sets of any costs *)

\* The leaf sets and the cost triples <<area, delay, power>> of the operand
\* cuts offered to diamondOperation
OperandVars == { {1}, {4}, {5}, {1, 4}, {4, 5} }

OperandCosts ==
  { <<0, 1, 0>>, <<1, 2, 0>>, <<Unset, 1, 0>>, <<0, Unset, 0>>,
    <<0, 1, Unset>> }

OperandCuts ==
  { Cut(leaves, costs[1], costs[2], costs[3]) :
      leaves \in OperandVars, costs \in OperandCosts }

\* CutSets of up to MaxOperandLen cuts: no two cuts with the same leaves
OperandSets(maxLen) ==
  { cutSet \in UNION { [1..n -> OperandCuts] : n \in 1..maxLen } :
      \A i, j \in 1..Len(cutSet) :
        CutEquals(cutSet[i], cutSet[j]) => i = j }

\* diamondOperation is applied on the engine's current implementation map
DiamondOperation ==
  /\ failure = ""
  /\ call = "idle"
  /\ \E andLiteral \in
          { literalFromIndex(v) :
              v \in (aig.I + aig.L + 1)..MaxVariableIndex(aig) },
        cutSetA \in OperandSets(MaxOperandLen), cutSetB \in OperandSets(1) :
       returned' =
         [pc |-> "returned", andLiteral |-> andLiteral,
          cutSetA |-> cutSetA, cutSetB |-> cutSetB,
          result |-> diamondOperation(aig, engineMap, andLiteral,
                                      cutSetA, cutSetB, k)]
  /\ call' = "diamondOperation"
  /\ UNCHANGED <<config, cutSetVector, engineMap, mapper, processingStack,
                 target, outIdx, failure, stdout, stderr, exitCode, reader>>

\* The result is dropped
DiamondOperationReturn ==
  /\ call = "diamondOperation"
  /\ call' = "idle"
  /\ returned' = NoCall
  /\ UNCHANGED <<config, cutSetVector, engineMap, mapper, processingStack,
                 target, outIdx, failure, stdout, stderr, exitCode, reader>>

InitDiamond == Constructed({TwoBranchAig}, {0}, {MinimizeArea})

NextDiamond ==
  \/ \E andLiteral \in 0..(2 * MaxVariableIndex(aig) + 1) : FindCuts(andLiteral)
  \/ FindCutsDefer
  \/ FindCutsEvaluate
  \/ FindCutsReturn
  \/ DiamondOperation
  \/ DiamondOperationReturn

SpecDiamond == InitDiamond /\ [][NextDiamond]_vars

----------------------------------------------------------------------------
(* The same design with the polarity of a reference to an AND changed *)

FlipBit(literal) == IF literal % 2 = 1 THEN literal - 1 ELSE literal + 1

\* The designs that differ from g in the polarity of one AND child that
\* refers to an AND (the children staying in order) or of one output that
\* refers to an AND
PolarityVariants(g) ==
  { [g EXCEPT !.ands[i][j] = FlipBit(@)] :
      <<i, j>> \in { p \in (1..NumAnds(g)) \X (1..2) :
                       /\ nodeIsAnd(g, g.ands[p[1]][p[2]])
                       /\ LET flipped ==
                                [g.ands[p[1]] EXCEPT ![p[2]] = FlipBit(@)]
                          IN flipped[1] >= flipped[2] } }
  \cup
  { [g EXCEPT !.outputs[o] = FlipBit(@)] :
      o \in { p \in 1..NumOutputs(g) : nodeIsAnd(g, g.outputs[p]) } }

\* main, started again on a file that differs in one polarity bit: a new
\* CutEngine and a new TechMapper are constructed; results keeps what each
\* run reported.
FlipPolarity ==
  /\ failure = ""
  /\ call = "idle"
  /\ Len(results) >= 1
  /\ Len(results) < MaxRuns
  /\ aig' \in PolarityVariants(aig)
  /\ cutSetVector' = NewCutSetVector(aig')
  /\ engineMap' = NewImplementationMap(aig')
  /\ mapperMap' = NewImplementationMap(aig')
  /\ mappingAreaCost' = 0
  /\ mappingDelayCost' = 0
  /\ fresh' = FALSE
  /\ UNCHANGED <<k, c, goal, processingStack, target, call, outIdx, failure,
                 results, process>>

InitPolarity ==
  Constructed({S3Aig, NegatedAig, TwoBranchAig}, {0},
              {MinimizeArea, MinimizeDelay})

NextPolarity == Next \/ FlipPolarity

SpecPolarity == InitPolarity /\ [][NextPolarity]_vars

----------------------------------------------------------------------------
(* main: the command-line tool from its start to its exit *)

\* The checks of the AIGER reader on the AND and output sections
WellFormed(g) ==
  /\ \A i \in 1..NumAnds(g) :
       LET andLiteral == literalFromIndex(g.I + g.L + i)
           rhs0Literal == g.ands[i][1]
           rhs1Literal == g.ands[i][2]
       IN /\ ~(rhs0Literal < rhs1Literal)
          /\ ~(andLiteral <= rhs0Literal \/ andLiteral <= rhs1Literal)
          /\ ~(rhs0Literal < 2 \/ rhs1Literal < 2)
  /\ \A i \in 1..NumOutputs(g) :
       ~(g.outputs[i] > literalFromIndex(MaxVariableIndex(g)) + 1)

\* A file the reader rejects: the children of AND 6 are in the wrong order
MalformedAig == [I |-> 2, L |-> 0, ands |-> << <<2, 4>> >>, outputs |-> <<6>>]

\* main has read its arguments; nothing is constructed yet
InitMain ==
  /\ aig \in Aigs \cup {MalformedAig}
  /\ k \in (MinK - 1)..MaxK
  /\ c \in 0..MaxC
  /\ goal \in {MinimizeArea, MinimizeDelay}
  /\ cutSetVector = <<>>
  /\ engineMap = <<>>
  /\ mapperMap = <<>>
  /\ mappingAreaCost = 0
  /\ mappingDelayCost = 0
  /\ processingStack = <<>>
  /\ target = 0
  /\ call = "main"
  /\ outIdx = 0
  /\ failure = ""
  /\ fresh = FALSE
  /\ results = <<>>
  /\ stdout = <<>>
  /\ stderr = <<>>
  /\ exitCode = <<>>
  /\ reader = NoReader
  /\ returned = NoCall

\* The constructors of AndInverterGraph, CutEngine and TechMapper
MainConstruct ==
  /\ call = "main"
  /\ failure = ""
  /\ exitCode = <<>>
  /\ IF ~WellFormed(aig)
       THEN /\ Fail("AndInverterGraph: malformed file")
            /\ UNCHANGED <<cutSetVector, engineMap, mapperMap, call>>
     ELSE IF k < MinK
       THEN /\ Fail("CutEngine constructor: k must be greater than 1")
            /\ UNCHANGED <<cutSetVector, engineMap, mapperMap, call>>
     ELSE /\ cutSetVector' = NewCutSetVector(aig)
          /\ engineMap' = NewImplementationMap(aig)
          /\ mapperMap' = NewImplementationMap(aig)
          /\ call' = "idle"
          /\ UNCHANGED <<processingStack, target, failure>>
  /\ UNCHANGED <<config, process, mappingAreaCost, mappingDelayCost, outIdx,
                 fresh, results>>

\* techMapper.run () as main calls it, once
MainRun ==
  /\ exitCode = <<>>
  /\ results = <<>>
  /\ TechMapperRun

\* printResults and the other reports, then return 0
MainReport ==
  /\ call = "idle"
  /\ failure = ""
  /\ exitCode = <<>>
  /\ Len(results) = 1
  /\ stdout' = Append(stdout, [area |-> mappingAreaCost,
                                depth |-> mappingDelayCost])
  /\ exitCode' = <<0>>
  /\ call' = "exited"
  /\ UNCHANGED <<config, cutSetVector, engineMap, mapper, processingStack,
                 target, outIdx, failure, stderr, reader, returned>>

\* The handler of main's function-try-block: it writes the message to
\* std::cerr and ends without a return statement, which for main is return 0
MainCatch ==
  /\ failure # ""
  /\ exitCode = <<>>
  /\ stderr' = Append(stderr, failure)
  /\ exitCode' = <<0>>
  /\ call' = "exited"
  /\ UNCHANGED <<config, cutSetVector, engineMap, mapper, processingStack,
                 target, outIdx, failure, stdout, reader, returned>>

NextMain ==
  \/ MainConstruct
  \/ MainRun
  \/ TechMapperRunOutput
  \/ TechMapperRunResume
  \/ TechMapperRunReturn
  \/ FindCutsDefer
  \/ FindCutsEvaluate
  \/ MainReport
  \/ MainCatch

SpecMain == InitMain /\ [][NextMain]_vars

----------------------------------------------------------------------------
(* AndInverterGraph::AndInverterGraph: the AIGER reader *)

MaxFileInputs == 1
MaxFileLatches == 2
MaxFileOutputs == 1
MaxFileAnds == 2

\* unsigned int is 32 bits wide; a value is held as its two 16-bit halves
Half == 65536

Word(high, low) == [hi |-> high, lo |-> low]

WordOf(n) == Word(n \div Half, n % Half)

Value(x) == x.hi * Half + x.lo

\* x - y in unsigned int arithmetic (modulo 2^32)
WordMinus(x, y) ==
  LET borrow == IF x.lo < y.lo THEN 1 ELSE 0
  IN Word((x.hi - y.hi - borrow + 2 * Half) % Half,
          (x.lo - y.lo + Half) % Half)

\* x < y on unsigned int
WordLess(x, y) == x.hi < y.hi \/ (x.hi = y.hi /\ x.lo < y.lo)

\* The largest unsigned int, UINT_MAX
MaxWord == Word(Half - 1, Half - 1)

\* The exception leaves the constructor: there is no object, only the message
ReadFailed(message, lineRead) ==
  [pc |-> "failed", what |-> message, line |-> lineRead]

\* The loop the constructor is in, from the counts of the header and what
\* has been read
Section(r) ==
  IF ~r.isBinary /\ r.inputsRead < r.numInputs THEN "inputs"
  ELSE IF Len(r.latchVector) < r.numLatches THEN "latches"
  ELSE IF Len(r.outputLiteralVector) < r.numOutputs THEN "outputs"
  ELSE IF Len(r.andVector) < r.numAnds THEN "ands"
  ELSE "fanout"

Advance(r, lineRead) == [r EXCEPT !.pc = Section(r), !.line = lineRead]

\* The design as the classification predicates of the object see it
Design(r) ==
  [I |-> r.numInputs, L |-> r.numLatches,
   ands |-> [i \in 1..r.numAnds |->
               IF i <= Len(r.andVector)
                 THEN <<r.andVector[i].firstChild,
                        r.andVector[i].secondChild>>
                 ELSE <<0, 0>>],
   outputs |-> r.outputLiteralVector]

literalFromAndVectorIndex(r, andVectorIndex) ==
  IF andVectorIndex > literalFromIndex(r.maxVariableIndex) + 1
    THEN [ok |-> FALSE, value |-> 0]
    ELSE [ok |-> TRUE,
          value |-> literalFromIndex(andVectorIndex + r.numInputs
                                     + r.numLatches + 1)]

literalFromLatchVectorIndex(r, latchVectorIndex) ==
  IF literalFromIndex(latchVectorIndex + r.numInputs + 1)
       > literalFromIndex(r.numInputs + 1)
    THEN [ok |-> FALSE, value |-> 0]
    ELSE [ok |-> TRUE,
          value |-> literalFromIndex(latchVectorIndex + r.numInputs + 1)]

andVectorIndexFromLiteral(r, andLiteral) ==
  indexFromLiteral(andLiteral) - r.numInputs - r.numLatches - 1

latchVectorIndexFromLiteral(r, latchLiteral) ==
  indexFromLiteral(latchLiteral) - r.numInputs - 1

\* Mutant of IncFanout: a reference to a latch is not counted
IncFanoutAndsOnly(r, literal) ==
  IF nodeIsAnd(Design(r), literal)
    THEN [r EXCEPT !.andVector[andVectorIndexFromLiteral(r, literal) + 1]
                      .fanout = @ + 1]
    ELSE r

\* The node a literal refers to, if an AND or a latch, gets one more fanout
IncFanout(r, literal) ==
  IF nodeIsAnd(Design(r), literal)
    THEN [r EXCEPT !.andVector[andVectorIndexFromLiteral(r, literal) + 1]
                      .fanout = @ + 1]
  ELSE IF nodeIsLatch(Design(r), literal)
    THEN [r EXCEPT !.latchVector[latchVectorIndexFromLiteral(r, literal) + 1]
                      .fanout = @ + 1]
  ELSE r

RECURSIVE IncFanouts(_, _)
IncFanouts(r, literals) ==
  IF literals = <<>> THEN r
  ELSE IncFanouts(IncFanout(r, Head(literals)), Tail(literals))

\* Mutant of AndIntegrity: a child tied to a constant is let through
AndIntegrityNoConstants(andLiteral, rhs0Literal, rhs1Literal) ==
  IF WordLess(rhs0Literal, rhs1Literal)
    THEN "Condition rhs1Literal >= rhs0Literal must be satisfied"
  ELSE IF \/ ~WordLess(rhs0Literal, andLiteral)
          \/ ~WordLess(rhs1Literal, andLiteral)
    THEN "Condition andLiteral > rhs1Literal >= rhs0Literal must be satisfied"
  ELSE ""

\* The integrity checks on one AND, the same in both formats; "" if it passes
AndIntegrity(andLiteral, rhs0Literal, rhs1Literal) ==
  IF WordLess(rhs0Literal, rhs1Literal)
    THEN "Condition rhs1Literal >= rhs0Literal must be satisfied"
  ELSE IF \/ ~WordLess(rhs0Literal, andLiteral)
          \/ ~WordLess(rhs1Literal, andLiteral)
    THEN "Condition andLiteral > rhs1Literal >= rhs0Literal must be satisfied"
  ELSE IF WordLess(rhs0Literal, WordOf(2)) \/ WordLess(rhs1Literal, WordOf(2))
    THEN "and-node tied to logic FALSE (0) or TRUE (1)"
  ELSE ""

\* The integrity checks on a next-state literal; "" if it passes
NextQIntegrity(r, nextQLiteral) ==
  IF nextQLiteral < 2
    THEN "latch node tied to logic FALSE (0) or TRUE (1)"
  ELSE IF nextQLiteral > literalFromIndex(r.maxVariableIndex) + 1
    THEN "Unexpected next Q literal"
  ELSE ""

\* The file is open and its first line is about to be read
Opened == [pc |-> "header", line |-> <<>>]

InitRead ==
  /\ aig = [I |-> 0, L |-> 0, ands |-> <<>>, outputs |-> <<>>]
  /\ k = MinK
  /\ c = 0
  /\ goal = MinimizeArea
  /\ cutSetVector = <<>>
  /\ engineMap = <<>>
  /\ mapperMap = <<>>
  /\ mappingAreaCost = 0
  /\ mappingDelayCost = 0
  /\ processingStack = <<>>
  /\ target = 0
  /\ call = "main"
  /\ outIdx = 0
  /\ failure = ""
  /\ fresh = FALSE
  /\ results = <<>>
  /\ stdout = <<>>
  /\ stderr = <<>>
  /\ exitCode = <<>>
  /\ reader = Opened
  /\ returned = NoCall

engine == <<cutSetVector, engineMap, processingStack, target, call, outIdx,
            failure>>

\* The lines the model offers to the reader
LatchLines(r) ==
  LET i == Len(r.latchVector)
      nextQs == {1, 2, literalFromIndex(r.numInputs + 1) + 1,
                 literalFromIndex(r.maxVariableIndex),
                 literalFromIndex(r.maxVariableIndex) + 2}
  IN IF r.isBinary THEN { <<q>> : q \in nextQs }
     ELSE { <<l, q>> : l \in { literalFromIndex(r.numInputs + 1 + i),
                                literalFromIndex(r.numInputs + 1 + i) + 2 },
                       q \in nextQs }

InputLines(r) ==
  {literalFromIndex(r.inputsRead + 1), literalFromIndex(r.inputsRead + 1) + 1}

OutputLines(r) ==
  {0, literalFromIndex(r.numInputs + 1) + 1,
   literalFromIndex(r.maxVariableIndex),
   literalFromIndex(r.maxVariableIndex) + 2}

AndLines(r) ==
  LET a == literalFromIndex(Len(r.andVector) + r.numInputs + r.numLatches + 1)
  IN IF r.isBinary
       THEN { <<d0, d1>> :
                d0 \in {WordOf(0), WordOf(1), WordOf(2), WordOf(a - 2),
                        WordOf(a - 1), WordOf(a + 1), MaxWord},
                d1 \in {WordOf(0), WordOf(1), WordOf(2), WordOf(a - 2),
                        MaxWord} }
       ELSE { <<l, rhs0, rhs1>> :
                l \in {a, a + 2},
                rhs0 \in {1, 2, a - 2, a - 1, a},
                rhs1 \in {1, 2, 3, a - 2, a - 1} }

\* The header line "aag M I L O A" or "aig M I L O A" and the checksum
ReadHeader(isBinary, M, I, L, O, A) ==
  /\ reader.pc = "header"
  /\ reader' =
       IF M # I + L + A
         THEN ReadFailed("Invalid checksum", <<M, I, L, O, A>>)
         ELSE Advance([pc |-> "header", line |-> <<>>, what |-> "",
                       isBinary |-> isBinary, maxVariableIndex |-> M,
                       numInputs |-> I, numLatches |-> L, numOutputs |-> O,
                       numAnds |-> A, inputsRead |-> 0, latchVector |-> <<>>,
                       outputLiteralVector |-> <<>>, andVector |-> <<>>,
                       nextQLiterals |-> <<>>],
                      <<M, I, L, O, A>>)
  /\ UNCHANGED <<config, engine, mapper, stdout, stderr, exitCode, returned>>

\* One line of the input section of an ASCII file
ReadInput ==
  /\ reader.pc = "inputs"
  /\ \E literal \in InputLines(reader) :
       reader' =
         IF literal # literalFromIndex(reader.inputsRead + 1)
           THEN ReadFailed("Unexpected input literal", <<literal>>)
           ELSE Advance([reader EXCEPT !.inputsRead = @ + 1], <<literal>>)
  /\ UNCHANGED <<config, engine, mapper, stdout, stderr, exitCode, returned>>

\* One line of the latch section: <<nextQ>> in a binary file,
\* <<latchLiteral, nextQ>> in an ASCII file
ReadLatch ==
  /\ reader.pc = "latches"
  /\ \E lineRead \in LatchLines(reader) :
     LET i == Len(reader.latchVector)
         nextQLiteral == lineRead[Len(lineRead)]
         expectedLatchLiteral == literalFromLatchVectorIndex(reader, i)
     IN reader' =
       IF ~reader.isBinary /\ ~expectedLatchLiteral.ok
         THEN ReadFailed("Runtime error. Not a valid latch literal", lineRead)
       ELSE IF ~reader.isBinary /\ lineRead[1] # expectedLatchLiteral.value
         THEN ReadFailed("Unexpected latch literal", lineRead)
       ELSE IF NextQIntegrity(reader, nextQLiteral) # ""
         THEN ReadFailed(NextQIntegrity(reader, nextQLiteral), lineRead)
       ELSE Advance([reader EXCEPT
                       !.latchVector =
                          Append(@, [nextQ |-> nextQLiteral, fanout |-> 0]),
                       !.nextQLiterals = Append(@, nextQLiteral)],
                    lineRead)
  /\ UNCHANGED <<config, engine, mapper, stdout, stderr, exitCode, returned>>

\* One line of the output section
ReadOutput ==
  /\ reader.pc = "outputs"
  /\ \E outputLiteral \in OutputLines(reader) :
       reader' =
         IF outputLiteral > literalFromIndex(reader.maxVariableIndex) + 1
           THEN ReadFailed("Unexpected output literal", <<outputLiteral>>)
           ELSE Advance([reader EXCEPT
                           !.outputLiteralVector = Append(@, outputLiteral)],
                        <<outputLiteral>>)
  /\ UNCHANGED <<config, engine, mapper, stdout, stderr, exitCode, returned>>

\* The AND is stored and the fanout of its children updated
StoreAnd(r, rhs0Literal, rhs1Literal) ==
  IncFanout(IncFanout([r EXCEPT !.andVector =
                                    Append(@, [firstChild |-> rhs0Literal,
                                               secondChild |-> rhs1Literal,
                                               fanout |-> 0])],
                      rhs0Literal),
            rhs1Literal)

\* One AND: the two deltas <<delta0, delta1>> of a binary file (unsigned
\* int values), the line <<andLiteral, rhs0, rhs1>> of an ASCII file
ReadAnd ==
  /\ reader.pc = "ands"
  /\ \E lineRead \in AndLines(reader) :
     LET i == Len(reader.andVector)
         expectedAndLiteral == literalFromAndVectorIndex(reader, i)
         andLiteral == WordOf(expectedAndLiteral.value)
         rhs0Literal == IF reader.isBinary
                          THEN WordMinus(andLiteral, lineRead[1])
                          ELSE WordOf(lineRead[2])
         rhs1Literal == IF reader.isBinary
                          THEN WordMinus(rhs0Literal, lineRead[2])
                          ELSE WordOf(lineRead[3])
     IN reader' =
       IF ~expectedAndLiteral.ok
         THEN ReadFailed("Runtime error (AndInverterGraph)", lineRead)
       ELSE IF ~reader.isBinary /\ lineRead[1] # expectedAndLiteral.value
         THEN ReadFailed("Unexpected and-literal", lineRead)
       ELSE IF AndIntegrity(andLiteral, rhs0Literal, rhs1Literal) # ""
         THEN ReadFailed(AndIntegrity(andLiteral, rhs0Literal, rhs1Literal),
                         lineRead)
       ELSE Advance(StoreAnd(reader, Value(rhs0Literal), Value(rhs1Literal)),
                    lineRead)
  /\ UNCHANGED <<config, engine, mapper, stdout, stderr, exitCode, returned>>

\* The end of the file: the fanout of the nodes the outputs and the
\* next-state literals refer to, then _initialized = true
UpdateFanouts ==
  /\ reader.pc = "fanout"
  /\ reader' =
       [IncFanouts(IncFanouts(reader, reader.outputLiteralVector),
                   reader.nextQLiterals)
          EXCEPT !.pc = "initialized"]
  /\ UNCHANGED <<config, engine, mapper, stdout, stderr, exitCode, returned>>

NextRead ==
  \/ \E isBinary \in BOOLEAN, I \in 0..MaxFileInputs, L \in 0..MaxFileLatches,
        O \in 0..MaxFileOutputs, A \in 0..MaxFileAnds :
       \E M \in {I + L + A, I + L + A + 1} :
         ReadHeader(isBinary, M, I, L, O, A)
  \/ ReadInput
  \/ ReadLatch
  \/ ReadOutput
  \/ ReadAnd
  \/ UpdateFanouts

SpecRead == InitRead /\ [][NextRead]_vars

----------------------------------------------------------------------------
(* Properties *)

AndLiterals(g) == { l \in 0..(2 * MaxVariableIndex(g) + 1) : nodeIsAnd(g, l) }

EvenAndLiterals(g) == { l \in AndLiterals(g) : l % 2 = 0 }

Combinational(g) == g.L = 0

\* A TechMapper.run has returned and none is being executed
RunCompleted == failure = "" /\ Len(results) >= 1 /\ call # "TechMapper.run"

Implemented(l) == l \in DOMAIN mapperMap /\ mapperMap[l]

\* C1: after TechMapper.run completes on a combinational AIG, the mapper's
\* implementation map is closed under best cuts: every primary output that is
\* an AND has its even literal marked implemented, and every AND among the
\* leaves of the best cut of an implemented AND is itself implemented.
C1_CoverClosed ==
  (RunCompleted /\ Combinational(aig)) =>
    /\ \A i \in 1..NumOutputs(aig) :
         nodeIsAnd(aig, aig.outputs[i]) =>
           Implemented(EvenLiteral(aig.outputs[i]))
    /\ \A l \in EvenAndLiterals(aig) :
         Implemented(l) =>
           /\ getCutSet(aig, cutSetVector, l) # <<>>
           /\ \A leaf \in AndLeaves(aig, getBestCut(aig, cutSetVector, l)) :
                Implemented(leaf)

\* C1 witness: a completed run on a combinational AIG that implemented an
\* AND reached only through the best cut of an AND that is not an output's
\* direct leaf (a cover three ANDs deep)
C1_Witness ==
  /\ RunCompleted
  /\ Combinational(aig)
  /\ \E l \in EvenAndLiterals(aig) :
       /\ Implemented(l)
       /\ \A i \in 1..NumOutputs(aig) : EvenLiteral(aig.outputs[i]) # l
       /\ \E leaf \in AndLeaves(aig, getBestCut(aig, cutSetVector, l)) :
            Implemented(leaf)

OutputsCountedDirectly(g) ==
  Cardinality({ i \in 1..NumOutputs(g) :
                  nodeIsInput(g, g.outputs[i]) \/ g.outputs[i] < 2 })

RECURSIVE SetMax(_)
SetMax(S) == IF S = {} THEN 0
             ELSE LET x == CHOOSE x \in S : TRUE
                  IN Max(x, SetMax(S \ {x}))

\* C2: after one TechMapper.run on a fresh TechMapper the reported area is
\* the number of AND literals marked implemented plus the number of output
\* entries that are inputs or constants; latch outputs add nothing to the
\* area, and nothing to the depth, which is the largest of 1 (if an output is
\* an input or a constant) and the best-cut delays of the AND outputs.
C2_AreaCount ==
  (RunCompleted /\ Len(results) = 1) =>
    /\ results[1].area =
         Cardinality({ l \in DOMAIN mapperMap : mapperMap[l] })
           + OutputsCountedDirectly(aig)
    /\ results[1].depth =
         SetMax({ getBestCut(aig, cutSetVector, aig.outputs[i]).delay :
                    i \in { j \in 1..NumOutputs(aig) :
                              nodeIsAnd(aig, aig.outputs[j]) } }
                \cup (IF OutputsCountedDirectly(aig) > 0 THEN {1} ELSE {}))

\* C2 witness: one completed run over outputs that include a latch, an AND
\* and an input or constant
C2_Witness ==
  /\ RunCompleted
  /\ Len(results) = 1
  /\ \E i \in 1..NumOutputs(aig) : nodeIsLatch(aig, aig.outputs[i])
  /\ \E i \in 1..NumOutputs(aig) : nodeIsAnd(aig, aig.outputs[i])
  /\ OutputsCountedDirectly(aig) > 0
  /\ results[1].area > OutputsCountedDirectly(aig)

\* The first TechMapper.run of a freshly constructed engine and mapper (the
\* run main performs) has returned
FirstRunReported == failure = "" /\ Len(results) >= 1 /\ results[1].fresh

Scenario(g, kk, cc, mappingGoal) ==
  aig = g /\ k = kk /\ c = cc /\ goal = mappingGoal

BestCutVars(andLiteral) ==
  getBestCut(aig, cutSetVector, andLiteral).vars

\* C3 as stated: scenario S3 with k = 2 (MinArea, c = 0) reports area 3 and
\* depth 2, AND 6 being implemented once and shared by both outputs.
C3_Original ==
  (Scenario(S3Aig, 2, 0, MinimizeArea) /\ FirstRunReported) =>
    /\ results[1].area = 3
    /\ results[1].depth = 2
    /\ Implemented(6)

\* C3 amended: scenario S3 with k = 2 (MinArea, c = 0) reports area 2 and
\* depth 1: the best cut of each output is {1, 2}, the two primary inputs,
\* and AND 6 is not implemented.
C3_S3K2 ==
  (Scenario(S3Aig, 2, 0, MinimizeArea) /\ FirstRunReported) =>
    /\ results[1].area = 2
    /\ results[1].depth = 1
    /\ BestCutVars(8) = {1, 2}
    /\ BestCutVars(10) = {1, 2}
    /\ Implemented(8) /\ Implemented(10) /\ ~Implemented(6)

C3_Witness == Scenario(S3Aig, 2, 0, MinimizeArea) /\ FirstRunReported

\* C4: scenario S2 under MinArea reports area 3 and depth 3 when k = 2, and
\* area 1 and depth 1 with best cut {1, 2, 3} for literal 12 when k = 3.
C4_S2 ==
  /\ (Scenario(S2Aig, 2, 0, MinimizeArea) /\ FirstRunReported) =>
       /\ results[1].area = 3
       /\ results[1].depth = 3
  /\ (Scenario(S2Aig, 3, 0, MinimizeArea) /\ FirstRunReported) =>
       /\ results[1].area = 1
       /\ results[1].depth = 1
       /\ BestCutVars(12) = {1, 2, 3}

C4_Witness == Scenario(S2Aig, 3, 0, MinimizeArea) /\ FirstRunReported

\* C5: scenario S3 with k = 3: the best cut of each output is {1, 2}, the
\* run reports area 2 and depth 1, and literal 6 is not marked implemented
\* in the mapper's map.
C5_S3K3 ==
  (Scenario(S3Aig, 3, 0, MinimizeArea) /\ FirstRunReported) =>
    /\ BestCutVars(8) = {1, 2}
    /\ BestCutVars(10) = {1, 2}
    /\ results[1].area = 2
    /\ results[1].depth = 1
    /\ ~Implemented(6)

C5_Witness == Scenario(S3Aig, 3, 0, MinimizeArea) /\ FirstRunReported

\* Some AND of the design reads a latch
ReadsLatch(g, andLiteral) ==
  \/ nodeIsLatch(g, getFirstChild(g, andLiteral))
  \/ nodeIsLatch(g, getSecondChild(g, andLiteral))

\* C6 as stated: phi on an AND that has a latch child succeeds, the latch
\* contributing an empty cut set and a singleton autocut of area 0, delay 1
\* and power 0, so the enumeration never ends with the exception getCutSet
\* raises for a literal that is not an AND.
C6_LatchLeaf ==
  /\ failure # "getCutSet: not a valid and-literal"
  /\ ( /\ failure = ""
       /\ processingStack # <<>>
       /\ ReadsLatch(aig, Top(processingStack))
       /\ ChildToDefer(aig, cutSetVector, Top(processingStack)) = 0 )
     => phiOperation(aig, cutSetVector, engineMap, k,
                     Top(processingStack)).ok

\* C7 as stated: a second TechMapper.run on the same TechMapper reports the
\* area and depth the first one reported.
C7_Idempotent ==
  (failure = "" /\ Len(results) = 2) =>
    /\ results[2].area = results[1].area
    /\ results[2].depth = results[1].depth

\* C8 as stated: under MinArea, for the same AIG and k and pruning bounds
\* 0 < c1 <= c2, the first run of a newly constructed engine and mapper with
\* bound c2 reports an area no larger than the one with bound c1.
C8_PruneMonotone ==
  ( /\ failure = ""
    /\ goal = MinimizeArea
    /\ Len(results) = 2
    /\ results[1].fresh /\ results[2].fresh )
  => /\ (0 < results[1].c /\ results[1].c <= results[2].c)
          => results[2].area <= results[1].area
     /\ (0 < results[2].c /\ results[2].c <= results[1].c)
          => results[1].area <= results[2].area

\* The AND variables a variable reads, taken from the design itself
AndChildren(g, v) ==
  IF v <= g.I + g.L \/ v > MaxVariableIndex(g) THEN {}
  ELSE { indexFromLiteral(g.ands[v - g.I - g.L][i]) : i \in 1..2 }
         \cap ((g.I + g.L + 1)..MaxVariableIndex(g))

\* The AND variables of the transitive fanin of the variables in todo,
\* these included
RECURSIVE Fanin(_, _, _)
Fanin(g, todo, seen) ==
  IF todo = {} THEN seen
  ELSE LET v == CHOOSE x \in todo : TRUE
       IN Fanin(g, (todo \cup AndChildren(g, v)) \ (seen \cup {v}),
                seen \cup {v})

\* C9: when findCuts(l) returns for an AND literal l of a combinational AIG
\* (to its client, to CutEngine.run or to TechMapper.run), l and every AND in
\* the transitive fanin of l have a non-empty cut set.
C9_FaninEvaluated ==
  [][ ( /\ Combinational(aig)
        /\ target # 0
        /\ target' = 0
        /\ failure' = "" )
      => \A v \in Fanin(aig, {indexFromLiteral(target)}, {}) :
           cutSetVector'[v - aig.I - aig.L] # <<>> ]_vars

\* C9 witness: findCuts has returned to its client for an AND of a
\* combinational AIG that has two different AND children, before any
\* TechMapper.run
C9_Witness ==
  /\ Combinational(aig)
  /\ failure = ""
  /\ call = "idle"
  /\ results = <<>>
  /\ \E v \in (aig.I + 1)..MaxVariableIndex(aig) :
       /\ Cardinality(AndChildren(aig, v)) = 2
       /\ cutSetVector[v - aig.I - aig.L] # <<>>

\* C10: the cut set of an AND is written once: a step never changes a cut
\* set that is non-empty, the cut sets and the engine's implementation map
\* change only in a step that evaluates the so far unevaluated node on top of
\* the work stack, and findCuts starts work only for a literal without a cut
\* set (for an evaluated literal it returns at once).
C10_OneWay ==
  [][ /\ \A i \in 1..NumAnds(aig) :
           cutSetVector[i] # <<>> => cutSetVector'[i] = cutSetVector[i]
      /\ (cutSetVector' # cutSetVector \/ engineMap' # engineMap)
           => /\ processingStack # <<>>
              /\ getCutSet(aig, cutSetVector, Top(processingStack)) = <<>>
      /\ (target' # target /\ target' # 0)
           => getCutSet(aig, cutSetVector, target') = <<>> ]_vars

\* C10 witness: a second TechMapper.run has returned on an engine that holds
\* cut sets, one of them with cuts of equal rank
C10_Witness ==
  /\ failure = ""
  /\ Len(results) = 2
  /\ \E i \in 1..NumAnds(aig) :
       /\ Len(cutSetVector[i]) >= 2
       /\ ~Comparator(goal, cutSetVector[i][1], cutSetVector[i][2])

\* C11: every cut stored in the cut set of an AND has at least one and at
\* most k leaves.
C11_KFeasible ==
  \A i \in 1..NumAnds(aig) :
    \A j \in 1..Len(cutSetVector[i]) :
      /\ Cardinality(cutSetVector[i][j].vars) >= 1
      /\ Cardinality(cutSetVector[i][j].vars) <= k

\* C11 witness: with k = 2 a node keeps a cut of two leaves although its
\* children offer cuts whose union has three
C11_Witness ==
  /\ k = 2
  /\ \E i \in 1..NumAnds(aig) :
       LET andLiteral == literalFromIndex(aig.I + aig.L + i) IN
       /\ \E j \in 1..Len(cutSetVector[i]) :
            Cardinality(cutSetVector[i][j].vars) = 2
       /\ nodeIsAnd(aig, getFirstChild(aig, andLiteral))
       /\ \E x \in 1..Len(getCutSet(aig, cutSetVector,
                                    getFirstChild(aig, andLiteral))) :
            Cardinality(getCutSet(aig, cutSetVector,
                                  getFirstChild(aig, andLiteral))[x].vars
                        \cup {indexFromLiteral(
                                getSecondChild(aig, andLiteral))}) = 3

\* No two cuts of the set have the same leaves
DistinctLeafSets(cutSet) ==
  \A i, j \in 1..Len(cutSet) : i # j => cutSet[i].vars # cutSet[j].vars

\* The node on top of the work stack is about to be evaluated by phi
ReadyToEvaluate ==
  /\ failure = ""
  /\ processingStack # <<>>
  /\ ChildToDefer(aig, cutSetVector, Top(processingStack)) = 0
  /\ getCutSet(aig, cutSetVector, Top(processingStack)) = <<>>
  /\ phiOperation(aig, cutSetVector, engineMap, k, Top(processingStack)).ok

\* The pairs of cutSetA x cutSetB, numbered in the order diamond visits them,
\* whose union is the leaf set leaves
PairsOf(cutSetA, cutSetB, leaves) ==
  { p \in 1..(Len(cutSetA) * Len(cutSetB)) :
      cutSetA[((p - 1) \div Len(cutSetB)) + 1].vars
        \cup cutSetB[((p - 1) % Len(cutSetB)) + 1].vars = leaves }

PairDelay(cutSetA, cutSetB, p) ==
  Max(cutSetA[((p - 1) \div Len(cutSetB)) + 1].delay,
      cutSetB[((p - 1) % Len(cutSetB)) + 1].delay)

\* C12: no stored cut set, no cut set phi hands to diamond and no result of
\* diamond holds two cuts with the same leaves; a leaf set produced again
\* leaves the set as it is, so each cut of the result has the costs of the
\* first pair that produced it.
C12_NoDuplicates ==
  /\ \A i \in 1..NumAnds(aig) : DistinctLeafSets(cutSetVector[i])
  /\ ReadyToEvaluate =>
       LET andLiteral == Top(processingStack)
           cutSetA == ChildOperand(aig, cutSetVector,
                                   getFirstChild(aig, andLiteral))
           cutSetB == ChildOperand(aig, cutSetVector,
                                   getSecondChild(aig, andLiteral))
           diamond == phiOperation(aig, cutSetVector, engineMap, k,
                                   andLiteral).cuts
       IN /\ DistinctLeafSets(cutSetA)
          /\ DistinctLeafSets(cutSetB)
          /\ DistinctLeafSets(diamond)
          /\ \A d \in 1..Len(diamond) :
               /\ PairsOf(cutSetA, cutSetB, diamond[d].vars) # {}
               /\ diamond[d].delay =
                    PairDelay(cutSetA, cutSetB,
                              SetMin(PairsOf(cutSetA, cutSetB,
                                             diamond[d].vars)))
               /\ diamond[d].area =
                    estimateUnionCutAreaCost(aig, engineMap, andLiteral,
                                             diamond[d])
               /\ diamond[d].power = 0

\* C12 witness: diamond is about to produce a leaf set of three leaves from
\* two different pairs
C12_Witness ==
  /\ ReadyToEvaluate
  /\ LET andLiteral == Top(processingStack)
         cutSetA == ChildOperand(aig, cutSetVector,
                                 getFirstChild(aig, andLiteral))
         cutSetB == ChildOperand(aig, cutSetVector,
                                 getSecondChild(aig, andLiteral))
         diamond == phiOperation(aig, cutSetVector, engineMap, k,
                                 andLiteral).cuts
     IN \E d \in 1..Len(diamond) :
          /\ Cardinality(diamond[d].vars) = 3
          /\ Cardinality(PairsOf(cutSetA, cutSetB, diamond[d].vars)) >= 2

\* How many cuts of the set have exactly the leaves given
Occurrences(cutSet, leaves) ==
  Cardinality({ j \in 1..Len(cutSet) : cutSet[j].vars = leaves })

C14_DelayAtLeastOne ==
  \A i \in 1..NumAnds(aig) :
    cutSetVector[i] # <<>> =>
      /\ cutSetVector[i][1].delay >= 1
      /\ \A j \in 1..Len(cutSetVector[i]) :
           /\ cutSetVector[i][j].area # Unset
           /\ cutSetVector[i][j].delay # Unset
           /\ cutSetVector[i][j].power # Unset

\* C14 witness: one AND has a best cut of delay 1 over inputs and another a
\* best cut of delay 2 or more
C14_Witness ==
  /\ \E i \in 1..NumAnds(aig) :
       cutSetVector[i] # <<>> /\ cutSetVector[i][1].delay = 1
  /\ \E i \in 1..NumAnds(aig) :
       cutSetVector[i] # <<>> /\ cutSetVector[i][1].delay >= 2

\* No cut of the sequence is strictly preceded by a later one
Sorted(cutSet, mappingGoal) ==
  \A a, b \in 1..Len(cutSet) :
    a < b => ~Comparator(mappingGoal, cutSet[b], cutSet[a])

Members(cutSet) == { cutSet[j] : j \in 1..Len(cutSet) }

\* C15: in every populated stored cut set no cut strictly precedes the first
\* one under the comparator of the goal and, when c > 0, there are at most c
\* cuts; the set findCuts stores for a node is the result of phi in sorted
\* order, cut down to its first c cuts when c > 0.
C15_SortedPrefix ==
  /\ [](\A i \in 1..NumAnds(aig) :
          /\ \A j \in 1..Len(cutSetVector[i]) :
               ~Comparator(goal, cutSetVector[i][j], cutSetVector[i][1])
          /\ c > 0 => Len(cutSetVector[i]) <= c)
  /\ [][ (ReadyToEvaluate /\ cutSetVector' # cutSetVector) =>
           LET full == phiOperation(aig, cutSetVector, engineMap, k,
                                    Top(processingStack)).cuts
               stored == getCutSet(aig, cutSetVector', Top(processingStack))
           IN /\ Sorted(stored, goal)
              /\ Members(stored) \subseteq Members(full)
              /\ Len(stored) = (IF c > 0 /\ Len(full) > c THEN c
                                ELSE Len(full))
              /\ \A dropped \in Members(full) \ Members(stored) :
                   \A kept \in Members(stored) :
                     ~Comparator(goal, dropped, kept) ]_vars

\* C15 witness: with c > 0 a stored cut set holds exactly c cuts, the first
\* strictly preceding the last
C15_Witness ==
  /\ c > 0
  /\ \E i \in 1..NumAnds(aig) :
       /\ Len(cutSetVector[i]) = c
       /\ Comparator(goal, cutSetVector[i][1], cutSetVector[i][c])

\* C16 as stated: under both comparators a cut that equals another in area
\* and delay but has fewer leaves strictly precedes it (leaf count is the
\* third key), for the cuts phi is about to hand to the sort.
C16_LeafCountKey ==
  ReadyToEvaluate =>
    \A cutA, cutB \in Members(phiOperation(aig, cutSetVector, engineMap, k,
                                           Top(processingStack)).cuts) :
      ( /\ cutA.area = cutB.area
        /\ cutA.delay = cutB.delay
        /\ Cardinality(cutA.vars) < Cardinality(cutB.vars) )
      => /\ cutAreaComparision(cutA, cutB)
         /\ cutDelayComparision(cutA, cutB)

\* The place of a cut in a cut set that holds it
Position(cutSet, cut) == CHOOSE j \in 1..Len(cutSet) : cutSet[j] = cut

\* C17 as stated: the sort is stable: cuts that tie under the comparator of
\* the goal are stored in the order in which diamond inserted them, and under
\* pruning a tied cut inserted earlier is never dropped for one inserted
\* later.
C17_StableSort ==
  [][ (ReadyToEvaluate /\ cutSetVector' # cutSetVector) =>
        LET full == phiOperation(aig, cutSetVector, engineMap, k,
                                 Top(processingStack)).cuts
            stored == getCutSet(aig, cutSetVector', Top(processingStack))
        IN /\ \A a, b \in 1..Len(stored) :
                ( /\ a < b
                  /\ ~Comparator(goal, stored[a], stored[b])
                  /\ ~Comparator(goal, stored[b], stored[a]) )
                => Position(full, stored[a]) < Position(full, stored[b])
           /\ \A dropped \in Members(full) \ Members(stored) :
                \A kept \in Members(stored) :
                  ~Comparator(goal, kept, dropped)
                    => Position(full, kept) < Position(full, dropped)
    ]_vars

\* C18: the step of TechMapper.run that processes an output that is a
\* constant or a primary input adds exactly 1 to the area, raises the depth
\* to at least 1 and enumerates no cuts: every cut set, both implementation
\* maps and the work stack are left as they were.
C18_DirectOutput ==
  [][ ( /\ failure = ""
        /\ call = "TechMapper.run"
        /\ target = 0
        /\ outIdx <= NumOutputs(aig)
        /\ \/ nodeIsInput(aig, aig.outputs[outIdx])
           \/ aig.outputs[outIdx] < 2 )
      => /\ mappingAreaCost' = mappingAreaCost + 1
         /\ mappingDelayCost' = Max(mappingDelayCost, 1)
         /\ mappingDelayCost' >= 1
         /\ cutSetVector' = cutSetVector
         /\ engineMap' = engineMap
         /\ mapperMap' = mapperMap
         /\ processingStack' = <<>>
         /\ target' = 0
         /\ failure' = ""
         /\ outIdx' = outIdx + 1 ]_vars

\* C18 witness: a run has returned over outputs that hold a constant and a
\* primary input, after an AND output whose best cut was already counted
C18_Witness ==
  /\ RunCompleted
  /\ \E i \in 1..NumOutputs(aig) : aig.outputs[i] < 2
  /\ \E i \in 1..NumOutputs(aig) : nodeIsInput(aig, aig.outputs[i])
  /\ \E i \in 1..NumAnds(aig) : cutSetVector[i] # <<>>
  /\ results[1].area = 3
  /\ results[1].depth = 1

\* C19 as stated: when CutEngine.run returns, every AND of the AIG, in the
\* fanin of an output or not, has a non-empty cut set.
C19_RunCoversAllAnds ==
  [][ (call = "CutEngine.run" /\ call' = "idle" /\ failure' = "") =>
        \A i \in 1..NumAnds(aig) : cutSetVector'[i] # <<>> ]_vars

\* C20 as stated: when a step of the mapping run fails, the tool writes a
\* diagnostic to stderr, prints no report and exits with a nonzero code; it
\* exits with code 0 only on success, after printing the report.
C20_ExitCode ==
  exitCode # <<>> =>
    IF failure # ""
      THEN /\ stderr # <<>>
           /\ stdout = <<>>
           /\ exitCode[1] # 0
      ELSE /\ stderr = <<>>
           /\ stdout # <<>>
           /\ exitCode[1] = 0

\* The reader holds a graph: the header has been accepted and no check failed
Reading == reader.pc \in {"inputs", "latches", "outputs", "ands", "fanout",
                          "initialized"}

\* The literal of the AND at position i (from 1) of andVector
AndLiteralAt(r, i) == 2 * (r.numInputs + r.numLatches + i)

\* a > c0 >= c1 >= 2 for the children a - d0 and c0 - d1 of a binary AND,
\* stated on the deltas: 1 <= d0 <= a - 2 and d1 <= a - d0 - 2
BinaryAndValid(a, delta0, delta1) ==
  /\ WordLess(WordOf(0), delta0)
  /\ ~WordLess(WordOf(a - 2), delta0)
  /\ ~WordLess(WordOf(a - Value(delta0) - 2), delta1)

AsciiAndValid(a, lineRead) ==
  /\ lineRead[1] = a
  /\ a > lineRead[2]
  /\ lineRead[2] >= lineRead[3]
  /\ lineRead[3] >= 2

\* C21: every AND i of a graph under construction or constructed has, with
\* a = 2*(I+L+1+i), children a > c0 >= c1 >= 2; the step that reads an AND
\* fails exactly when the AND violates this (in a binary file when 1 <= d0 <=
\* a - 2 and d1 <= c0 - 2 do not both hold, which includes the deltas that
\* make a - d0 or c0 - d1 wrap around), and otherwise stores the children
\* declared.
C21_AndIntegrity ==
  /\ [](Reading =>
          \A i \in 1..Len(reader.andVector) :
            /\ AndLiteralAt(reader, i) > reader.andVector[i].firstChild
            /\ reader.andVector[i].firstChild
                 >= reader.andVector[i].secondChild
            /\ reader.andVector[i].secondChild >= 2)
  /\ [][ reader.pc = "ands" =>
           LET a == AndLiteralAt(reader, Len(reader.andVector) + 1)
               lineRead == reader'.line
               valid == IF reader.isBinary
                          THEN BinaryAndValid(a, lineRead[1], lineRead[2])
                          ELSE AsciiAndValid(a, lineRead)
           IN IF valid
                THEN /\ reader'.pc # "failed"
                     /\ Len(reader'.andVector) = Len(reader.andVector) + 1
                     /\ LET stored == reader'.andVector[Len(reader'.andVector)]
                        IN IF reader.isBinary
                             THEN /\ stored.firstChild = a - Value(lineRead[1])
                                  /\ stored.secondChild =
                                       stored.firstChild - Value(lineRead[2])
                             ELSE /\ stored.firstChild = lineRead[2]
                                  /\ stored.secondChild = lineRead[3]
                ELSE reader'.pc = "failed" ]_vars

\* C21 witness: the second delta of a binary AND, larger than the first
\* child, made the second child wrap around and the reader rejected the file
C21_Witness ==
  /\ reader.pc = "failed"
  /\ reader.what = "Condition rhs1Literal >= rhs0Literal must be satisfied"
  /\ Len(reader.line) = 2
  /\ reader.line[1] = WordOf(2)
  /\ reader.line[2] = MaxWord

\* C22 as stated: the step that reads the i-th latch line of an ASCII file
\* accepts it, whatever the number of latches, when the line declares the
\* latch literal 2*(I+1+i) and a next-state literal in 2 .. 2*M+1, and stores
\* the latch at position i of the latch array with that next-state literal.
C22_LatchAccepted ==
  [][ ( /\ reader.pc = "latches"
        /\ ~reader.isBinary
        /\ reader'.line[1] =
             2 * (reader.numInputs + 1 + Len(reader.latchVector))
        /\ reader'.line[2] >= 2
        /\ reader'.line[2] <= 2 * reader.maxVariableIndex + 1 )
      => /\ reader'.pc # "failed"
         /\ reader'.latchVector =
              Append(reader.latchVector,
                     [nextQ |-> reader'.line[2], fanout |-> 0]) ]_vars

\* The references to variable v, of either polarity, among the AND
\* children, the next-state literals and the output literals of the graph
ReferencesTo(r, v) ==
  Cardinality({ i \in 1..Len(r.andVector) :
                  indexFromLiteral(r.andVector[i].firstChild) = v })
  + Cardinality({ i \in 1..Len(r.andVector) :
                    indexFromLiteral(r.andVector[i].secondChild) = v })
  + Cardinality({ i \in 1..Len(r.latchVector) :
                    indexFromLiteral(r.latchVector[i].nextQ) = v })
  + Cardinality({ i \in 1..Len(r.outputLiteralVector) :
                    indexFromLiteral(r.outputLiteralVector[i]) = v })

\* The fanout stored for the AND or latch of variable v
FanoutOf(r, v) ==
  IF v > r.numInputs + r.numLatches
    THEN r.andVector[v - r.numInputs - r.numLatches].fanout
    ELSE r.latchVector[v - r.numInputs].fanout

\* C23: once the constructor has succeeded, the fanout of every AND and of
\* every latch is the number of references to it, of either polarity, among
\* all AND children, all next-state literals and all output literals, each
\* counted once (an AND with both children on one node counts twice).
C23_Fanout ==
  reader.pc = "initialized" =>
    \A v \in (reader.numInputs + 1)..reader.maxVariableIndex :
      FanoutOf(reader, v) = ReferencesTo(reader, v)

\* C23 witness: a constructed graph in which an AND has both children on
\* one latch or AND that is referred to a third time, and in which a latch
\* is the next state of a latch
C23_Witness ==
  /\ reader.pc = "initialized"
  /\ \E i \in 1..Len(reader.andVector) :
       LET v == indexFromLiteral(reader.andVector[i].firstChild) IN
       /\ v = indexFromLiteral(reader.andVector[i].secondChild)
       /\ v > reader.numInputs
       /\ FanoutOf(reader, v) >= 3
  /\ \E i \in 1..Len(reader.latchVector) :
       nodeIsLatch(Design(reader), reader.latchVector[i].nextQ)

\* No cut ties with the best cut of its set for the first place
UniqueBest(cutSets, mappingGoal) ==
  \A i \in 1..Len(cutSets) :
    Len(cutSets[i]) >= 2 =>
      Comparator(mappingGoal, cutSets[i][1], cutSets[i][2])

\* C24 as stated, for runs whose outcome does not depend on the order the
\* sort gives to tied cuts (c = 0 and no tie for the best cut): two first
\* runs of newly constructed engines and mappers on combinational designs
\* that differ only in the polarity of references to ANDs store cuts with the
\* same leaves and costs for every AND and report the same area and depth.
C24_PolarityIndependent ==
  ( /\ failure = ""
    /\ Combinational(aig)
    /\ c = 0
    /\ Len(results) = 2
    /\ results[1].fresh /\ results[2].fresh
    /\ UniqueBest(results[1].cuts, goal)
    /\ UniqueBest(results[2].cuts, goal) )
  => /\ results[2].area = results[1].area
     /\ results[2].depth = results[1].depth
     /\ \A i \in 1..NumAnds(aig) :
          Members(results[2].cuts[i]) = Members(results[1].cuts[i])

\* The variables the AND of variable v reads
ChildVars(g, v) ==
  { indexFromLiteral(g.ands[v - g.I - g.L][i]) : i \in 1..2 }

\* The variables of the transitive fanin of the AND of variable a, a excluded
FaninVars(g, a) ==
  UNION { ChildVars(g, v) : v \in Fanin(g, {a}, {}) }

\* Every path from a primary input or a latch up to variable v crosses leaves
RECURSIVE Separated(_, _, _)
Separated(g, v, leaves) ==
  \/ v \in leaves
  \/ /\ v > g.I + g.L
     /\ \A child \in ChildVars(g, v) : Separated(g, child, leaves)

\* C25: every cut stored for an AND a is a cut of a: its leaves are variables
\* of primary inputs or of ANDs in the transitive fanin of a, a itself is not
\* a leaf, and every path from a primary input to a crosses a leaf.
C25_RealCut ==
  \A i \in 1..NumAnds(aig) :
    \A j \in 1..Len(cutSetVector[i]) :
      LET a == aig.I + aig.L + i
          leaves == cutSetVector[i][j].vars
      IN /\ leaves \subseteq FaninVars(aig, a)
         /\ a \notin leaves
         /\ \A v \in leaves : v <= aig.I \/ v > aig.I + aig.L
         /\ \A child \in ChildVars(aig, a) : Separated(aig, child, leaves)

\* C25 witness: a stored cut has among its leaves an input and an AND that
\* the node does not read itself
C25_Witness ==
  \E i \in 1..NumAnds(aig) :
    \E j \in 1..Len(cutSetVector[i]) :
      LET a == aig.I + aig.L + i
          leaves == cutSetVector[i][j].vars
      IN /\ \E v \in leaves : v <= aig.I
         /\ \E v \in leaves : v > aig.I + aig.L /\ v \notin ChildVars(aig, a)

\* The children of the node on top of the work stack that are ANDs
AndChildLiterals(g, andLiteral) ==
  { childLiteral \in {getFirstChild(g, andLiteral),
                      getSecondChild(g, andLiteral)} :
      nodeIsAnd(g, childLiteral) }

\* The entry of a key, "none" for a key the map does not hold
Entry(map, key) == IF key \in DOMAIN map THEN map[key] ELSE "none"

\* C26: the step of findCuts that stores the cut set of node t, the literal
\* on top of the work stack: when the best cut stored has area 0, the entry of
\* t in the engine's implementation map is true afterwards and the entry of the even literal of each AND child of t
\* whose best-cut leaves are all leaves of t's best cut is false afterwards;
\* when the area is not 0 no entry changes; in either case no entry changes
\* other than t's and those of the even literals of the absorbed AND children.
C26_Absorption ==
  [][ (ReadyToEvaluate /\ cutSetVector' # cutSetVector) =>
        LET t == Top(processingStack)
            bestCut == getBestCut(aig, cutSetVector', t)
            absorbed ==
              { EvenLiteral(childLiteral) :
                  childLiteral \in
                    { x \in AndChildLiterals(aig, t) :
                        getBestCut(aig, cutSetVector, x).vars
                          \subseteq bestCut.vars } }
        IN IF bestCut.area = 0
             THEN /\ Entry(engineMap', t) = TRUE
                  /\ \A l \in absorbed : Entry(engineMap', l) = FALSE
                  /\ \A l \in (DOMAIN engineMap \cup DOMAIN engineMap')
                                \ ({t} \cup absorbed) :
                       Entry(engineMap', l) = Entry(engineMap, l)
             ELSE engineMap' = engineMap ]_vars

\* C26 witness: a node whose best cut has area 0 has been evaluated and is
\* marked, and the entry of the even literal of a child it reads negated and
\* absorbed is false
C26_Witness ==
  \E i \in 1..NumAnds(aig) :
    LET t == literalFromIndex(aig.I + aig.L + i) IN
    /\ cutSetVector[i] # <<>>
    /\ cutSetVector[i][1].area = 0
    /\ Entry(engineMap, t) = TRUE
    /\ \E childLiteral \in AndChildLiterals(aig, t) :
         /\ childLiteral % 2 = 1
         /\ getBestCut(aig, cutSetVector, childLiteral).vars
              \subseteq cutSetVector[i][1].vars
         /\ Entry(engineMap, EvenLiteral(childLiteral)) = FALSE

\* C27 as stated: the keys of the engine's implementation map are at all
\* times exactly the even AND literals 2*(I+L+1) .. 2*M, no step adds a key,
\* and the flag the area estimate reads for an AND, the entry of its even
\* literal, is the one written when the AND is evaluated: true after the
\* step that stores a best cut of area 0 for it.
C27_EvenKeys ==
  /\ [](DOMAIN engineMap =
          { 2 * v : v \in (aig.I + aig.L + 1)..MaxVariableIndex(aig) })
  /\ [][ /\ DOMAIN engineMap' = DOMAIN engineMap
         /\ ( /\ ReadyToEvaluate
              /\ cutSetVector' # cutSetVector
              /\ getBestCut(aig, cutSetVector',
                            Top(processingStack)).area = 0 )
            => Entry(engineMap', EvenLiteral(Top(processingStack))) = TRUE
       ]_vars

\* What a leaf adds to the delay of a cut: 1 for a primary input, one more
\* than the delay of its best cut for an AND
LeafDelay(v) ==
  IF v <= aig.I + aig.L THEN 1
  ELSE 1 + cutSetVector[v - aig.I - aig.L][1].delay

\* The delay of every stored cut is the largest LeafDelay of its leaves, and
\* the best cut of an AND has a larger delay than the best cut of each of its
\* AND leaves
DelayFromLeaves ==
  \A i \in 1..NumAnds(aig) :
    /\ \A j \in 1..Len(cutSetVector[i]) :
         cutSetVector[i][j].delay =
           SetMax({ LeafDelay(v) : v \in cutSetVector[i][j].vars })
    /\ cutSetVector[i] # <<>> =>
         \A v \in cutSetVector[i][1].vars :
           v > aig.I + aig.L =>
             cutSetVector[i][1].delay > cutSetVector[v - aig.I - aig.L][1].delay

\* The best-cut delays of the ANDs the mapper has marked implemented
ImplementedDelays ==
  { getBestCut(aig, cutSetVector, l).delay :
      l \in { x \in EvenAndLiterals(aig) : Implemented(x) } }

\* C28 as stated: the delay of a stored cut is the largest, over its leaves,
\* of 1 for an input and 1 + the best-cut delay for an AND; the best cut of an
\* AND has a larger delay than that of each AND leaf; the depth a run reports
\* is the largest best-cut delay among the ANDs marked implemented.
C28_Original ==
  /\ DelayFromLeaves
  /\ RunCompleted =>
       results[Len(results)].depth = SetMax(ImplementedDelays)

\* C28 amended: as stated, but the depth a run reports is the largest of the
\* best-cut delays of the ANDs marked implemented and of 1 if an output is a
\* primary input or a constant.
C28_DelayFromLeaves ==
  /\ DelayFromLeaves
  /\ RunCompleted =>
       results[Len(results)].depth =
         SetMax(ImplementedDelays
                \cup (IF OutputsCountedDirectly(aig) > 0 THEN {1} ELSE {}))

\* C28 witness: a run has reported a depth of 2 or more and marked an AND
\* whose best cut has an AND among its leaves and another AND of smaller
\* best-cut delay
C28_Witness ==
  /\ RunCompleted
  /\ results[Len(results)].depth >= 2
  /\ \E l \in EvenAndLiterals(aig) :
       /\ Implemented(l)
       /\ AndLeaves(aig, getBestCut(aig, cutSetVector, l)) # {}
  /\ Cardinality(ImplementedDelays) >= 2

\* The pairs (x, y) the examined diamondOperation visits, in its order
\* (cutSetA in the outer loop), each with the leaves of its union and whether
\* x or y has a cost that is not set
Walk ==
  [ p \in 1..(Len(returned.cutSetA) * Len(returned.cutSetB)) |->
      LET x == returned.cutSetA[((p - 1) \div Len(returned.cutSetB)) + 1]
          y == returned.cutSetB[((p - 1) % Len(returned.cutSetB)) + 1]
      IN [x |-> x, y |-> y, leaves |-> x.vars \cup y.vars,
          unset |-> \E cut \in {x, y} :
                      cut.area = Unset \/ cut.delay = Unset
                        \/ cut.power = Unset] ]

\* The result holds one cut for each union of at most k leaves; its area is
\* the number of its AND leaves whose flag in the engine's map is false, its
\* delay the larger delay of the first pair that produced it, its power 0
InsertedCosts ==
  /\ { returned.result.cuts[i].vars : i \in 1..Len(returned.result.cuts) } =
       { Walk[p].leaves :
           p \in { q \in DOMAIN Walk : Cardinality(Walk[q].leaves) <= k } }
  /\ \A i \in 1..Len(returned.result.cuts) :
       LET u == returned.result.cuts[i]
           producer == CHOOSE p \in DOMAIN Walk :
                         /\ Walk[p].leaves = u.vars
                         /\ \A q \in DOMAIN Walk :
                              q < p => Walk[q].leaves # u.vars
           x == Walk[producer].x
           y == Walk[producer].y
       IN /\ u.area =
               Cardinality({ v \in u.vars :
                               /\ v > aig.I + aig.L
                               /\ engineMap[2 * v] = FALSE })
          /\ u.delay = (IF x.delay >= y.delay THEN x.delay ELSE y.delay)
          /\ u.power = 0
          /\ \A j \in 1..Len(returned.result.cuts) :
               returned.result.cuts[j].vars = u.vars => j = i

C30_PostOrder ==
  /\ (Combinational(aig) /\ processingStack # <<>>)
       ~> (processingStack = <<>> /\ failure = "")
  /\ [][ (Combinational(aig) /\ processingStack # <<>>) =>
           LET v == indexFromLiteral(Top(processingStack))
               i == v - aig.I - aig.L
           IN
           IF Len(processingStack') > Len(processingStack)
             THEN /\ Pop(processingStack') = processingStack
                  /\ indexFromLiteral(Top(processingStack'))
                       \in AndChildren(aig, v)
                  /\ cutSetVector[indexFromLiteral(Top(processingStack'))
                                    - aig.I - aig.L] = <<>>
                  /\ cutSetVector' = cutSetVector
                  /\ failure' = ""
             ELSE /\ processingStack' = Pop(processingStack)
                  /\ failure' = ""
                  /\ v \in Fanin(aig, {indexFromLiteral(target)}, {})
                  /\ \A w \in AndChildren(aig, v) :
                       cutSetVector[w - aig.I - aig.L] # <<>>
                  /\ cutSetVector[i] = <<>>
                  /\ cutSetVector'[i] # <<>>
                  /\ \A j \in 1..NumAnds(aig) :
                       j # i => cutSetVector'[j] = cutSetVector[j]
        ]_vars
  /\ []( ( /\ Combinational(aig)
           /\ processingStack = <<>>
           /\ target # 0
           /\ failure = "" )
         => \A v \in Fanin(aig, {indexFromLiteral(target)}, {}) :
              cutSetVector[v - aig.I - aig.L] # <<>> )

\* C30 witness: the loop of findCuts has ended with an empty stack for a
\* literal whose cone holds three ANDs, two of them children of the third
C30_Witness ==
  /\ Combinational(aig)
  /\ processingStack = <<>>
  /\ target # 0
  /\ failure = ""
  /\ Cardinality(Fanin(aig, {indexFromLiteral(target)}, {})) >= 3
  /\ Cardinality(AndChildren(aig, indexFromLiteral(target))) = 2
  /\ \A v \in Fanin(aig, {indexFromLiteral(target)}, {}) :
       cutSetVector[v - aig.I - aig.L] # <<>>

====
